---- MODULE Spec2Model ----
(***************************************************************************)
(* bun-sqlite-key-value: the expiration-aware key-value store built on an  *)
(* `items` table (key, value, expires).  The model follows                 *)
(* src/src/index.ts (class BunSqliteKeyValue) and the SQL statements of    *)
(* src/src/database.ts.                                                    *)
(*                                                                         *)
(* Keys are strings, modelled as tuples of Unicode code points; SQLite     *)
(* compares TEXT keys bytewise in UTF-8, which is code-point order.        *)
(* Date.now() is the variable `now`; every method call is one action that  *)
(* runs at one instant (the calls are synchronous).                        *)
(***************************************************************************)
EXTENDS Integers, Sequences, FiniteSets, TLC

VARIABLES
    items,   \* the rows of table `items`: records [key, value, expires]
    ttlMs,   \* this.ttlMs, the store's default TTL (constructor option)
    now,     \* Date.now()
    last,    \* the last call: [op, arg, res, before, old]: its name, its
             \* argument, its return value, the keys that had a row when it
             \* was made, and what a read-then-write call read
    maxExpiringItemsInDb,  \* this.maxExpiringItemsInDb (constructor option)
    tx,      \* the connections to the store file: [lock, callers]: who holds
             \* the write lock, and each caller's transaction in progress
    tags     \* the rows of table `tags`: records [tag, item_key]

vars == <<items, ttlMs, now, last, maxExpiringItemsInDb, tx, tags>>

---------------------------------------------------------------------------
(* Bounds *)

MaxTime == 3     \* the clock runs over 1..MaxTime
MaxTtl  == 1     \* TTL arguments are 0..MaxTtl
MaxKeys == 2     \* longest array of keys passed to a call
MaxRows == 2     \* most rows in the table under SpecPrefix
MaxKeyLen == 2   \* longest key under SpecPrefix
MaxBy == 2       \* largest step of incr and decr under SpecIncr
MaxNum == 3      \* largest counter under SpecIncr
MaxCap == 1      \* largest cap on the rows that carry a stamp under SpecKeys
MaxCallers == 2  \* concurrent callers under SpecConcurrent
MaxCalls == 2    \* calls each of them makes under SpecConcurrent
MaxLen == 3      \* longest list under SpecList
MaxPush == 2     \* most values one push takes under SpecList

---------------------------------------------------------------------------
(* JavaScript and SQL values *)

\* SQL NULL in column `expires` (bound from an undefined `expires`)
NULL == -1

\* an omitted (undefined) ttlMs argument or option
UNDEFINED_TTL == -1

\* an omitted (undefined) maxExpiringItemsInDb argument or option
UNDEFINED_MAX == -1

\* JavaScript values, by shape: [kind, val]
Undefined == [kind |-> "undefined", val |-> <<>>]
NullValue == [kind |-> "null",      val |-> <<>>]
NumValue  == [kind |-> "number",    val |-> <<1>>]
StrValue  == [kind |-> "string",    val |-> <<97, 98>>]
ObjValue  == [kind |-> "object",    val |-> <<1, 2>>]
ArrValue  == [kind |-> "array",     val |-> <<1, 2, 3>>]
MapValue  == [kind |-> "map",       val |-> <<97, 1>>]
SetValue  == [kind |-> "set",       val |-> <<1, 2>>]

\* what a call returns when it is not a stored value: [kind, val] as well
BoolResult(b)  == [kind |-> "boolean", val |-> b]
CountResult(n) == [kind |-> "count", val |-> n]
ListResult(l)  == [kind |-> "list", val |-> l]

\* the values callers store: every supported shape
Values == {NullValue, NumValue, StrValue, ObjValue, ArrValue, MapValue, SetValue}

\* the values callers store under Spec
CoreValues == {NullValue, NumValue}

\* the NULL blob / the `value` of a record that was not found
NoBuffer == [tag |-> "NULL", val |-> <<>>, ver |-> 0]

\* node:v8 serialize(): a version header and a type tag before the payload
V8Tag(kind) ==
    CASE kind = "undefined" -> "_"
      [] kind = "null"      -> "0"
      [] kind = "number"    -> "I"
      [] kind = "string"    -> "S"
      [] kind = "object"    -> "o"
      [] kind = "array"     -> "A"
      [] kind = "map"       -> ";"
      [] kind = "set"       -> "'"

V8Kind(tag) ==
    CASE tag = "_" -> "undefined"
      [] tag = "0" -> "null"
      [] tag = "I" -> "number"
      [] tag = "S" -> "string"
      [] tag = "o" -> "object"
      [] tag = "A" -> "array"
      [] tag = ";" -> "map"
      [] tag = "'" -> "set"

serialize(v) == [tag |-> V8Tag(v.kind), val |-> v.val, ver |-> 15]

deserialize(buf) == [kind |-> V8Kind(buf.tag), val |-> buf.val]

\* a decoder that takes a stored null for "no value"
DecodeValue_NullIsAbsent(buf) ==
    IF buf = NoBuffer \/ buf.tag = V8Tag("null") THEN Undefined ELSE deserialize(buf)

\* `value ? deserialize(value) as T : undefined`
DecodeValue(buf) == IF buf = NoBuffer THEN Undefined ELSE deserialize(buf)

---------------------------------------------------------------------------
(* Keys *)

KeyA == <<97>>
KeyB == <<98>>

\* the keys callers use under Spec
Keys == {KeyA, KeyB}

\* arrays of at most n keys over S
RECURSIVE ArraysOf(_, _)
ArraysOf(S, n) ==
    IF n = 0 THEN {<<>>}
    ELSE LET shorter == ArraysOf(S, n - 1)
         IN  shorter \cup {Append(a, k) : a \in {b \in shorter : Len(b) = n - 1}, k \in S}

Range(seq) == {seq[i] : i \in 1..Len(seq)}

\* String.fromCodePoint(1) and String.fromCodePoint(1_114_111)
MIN_UTF8_CHAR == 1
MAX_UTF8_CHAR == 1114111

\* SQLite's BINARY collation on TEXT: a < b, bytewise (code point by code point)
KeyLess(a, b) ==
    \E i \in 1..(Len(a) + 1) :
        /\ i <= Len(b)
        /\ \A j \in 1..(i - 1) : a[j] = b[j]
        /\ (i = Len(a) + 1 \/ a[i] < b[i])

KeyLeq(a, b) == a = b \/ KeyLess(a, b)

\* `key` starts with `prefix`
StartsWith(key, prefix) ==
    /\ Len(prefix) <= Len(key)
    /\ SubSeq(key, 1, Len(prefix)) = prefix

---------------------------------------------------------------------------
(* Table `items` *)

KeysOf(rows) == {r.key : r \in rows}

HasRow(rows, key) == \E r \in rows : r.key = key

RowOf(rows, key) == CHOOSE r \in rows : r.key = key

\* getItemStatement.get({key}): the row, or undefined
NoRecord == [key |-> <<>>, value |-> NoBuffer, expires |-> NULL]

\* INSERT OR IGNORE: the primary key conflict keeps the old row
setItemStatement_InsertOrIgnore(rows, key, value, expires) ==
    IF \E r \in rows : r.key = key THEN rows
    ELSE rows \cup {[key |-> key, value |-> value, expires |-> expires]}

\* INSERT OR REPLACE INTO items (key, value, expires): the primary key
\* conflict removes the old row of the key
setItemStatement(rows, key, value, expires) ==
    {r \in rows : r.key # key} \cup {[key |-> key, value |-> value, expires |-> expires]}

\* DELETE FROM items WHERE key = $key
deleteStatement(rows, key) == {r \in rows : r.key # key}

\* DELETE FROM items
clearStatement(rows) == {}

\* DELETE FROM items WHERE expires < $now  (NULL < x is not true)
deleteExpiredStatement(rows, t) == {r \in rows : ~(r.expires # NULL /\ r.expires < t)}

\* JavaScript: `expires && expires < now` (null and 0 are falsy)
IsExpired(expires, t) == expires # NULL /\ expires # 0 /\ expires < t

---------------------------------------------------------------------------
(* Connections *)

\* the callers that share the store file, one connection each
Callers == 1..MaxCallers

NoCaller == 0

\* a caller between two calls
IdleCaller == [pc |-> "idle", rows |-> {}, newValue |-> Undefined, results |-> <<>>]

\* no transaction is open and nobody holds the write lock
NoTx == [lock |-> NoCaller, callers |-> [c \in Callers |-> IdleCaller]]

---------------------------------------------------------------------------
(* set / get *)

\* `ttlMs || this.ttlMs` in place of `ttlMs ?? this.ttlMs`
ExpiresFor_OrDefault(ttl, default, t) ==
    LET eff == IF ttl = UNDEFINED_TTL \/ ttl = 0 THEN default ELSE ttl
    IN  IF eff # UNDEFINED_TTL /\ eff > 0 THEN t + eff ELSE NULL

\* set(): ttlMs = ttlMs ?? this.ttlMs; expires = Date.now() + ttlMs when ttlMs > 0
ExpiresFor(ttl, default, t) ==
    LET eff == IF ttl = UNDEFINED_TTL THEN default ELSE ttl
    IN  IF eff # UNDEFINED_TTL /\ eff > 0 THEN t + eff ELSE NULL

SetRows(rows, key, v, ttl, default, t) ==
    setItemStatement(rows, key, serialize(v), ExpiresFor(ttl, default, t))

\* a get() that returns the value of a row whatever its stamp
GetResult_IgnoresStamp(rows, key, t) ==
    IF ~HasRow(rows, key) THEN Undefined ELSE DecodeValue(RowOf(rows, key).value)

\* get(): what it returns
GetResult(rows, key, t) ==
    IF ~HasRow(rows, key) THEN Undefined
    ELSE LET record == RowOf(rows, key)
         IN  IF IsExpired(record.expires, t) THEN Undefined
             ELSE DecodeValue(record.value)

\* a get() that leaves the expired row in the table
GetRows_KeepsExpired(rows, key, t) == rows

\* get(): the table it leaves (an expired row is deleted)
GetRows(rows, key, t) ==
    IF HasRow(rows, key) /\ IsExpired(RowOf(rows, key).expires, t)
    THEN deleteStatement(rows, key)
    ELSE rows

\* a foreign key without ON DELETE CASCADE that lets the delete pass
CascadeDelete_None(tagRows, keys) == tagRows

\* item_key TEXT NOT NULL REFERENCES items ON DELETE CASCADE: the rows of
\* `tags` left when the rows of `keys` are deleted from `items`
CascadeDelete(tagRows, keys) == {tr \in tagRows : tr.item_key \notin keys}

\* a foreign key without ON UPDATE CASCADE that lets the update pass
CascadeUpdate_None(tagRows, oldKey, newKey) == tagRows

\* ... ON UPDATE CASCADE: the rows of `tags` left when key oldKey of
\* `items` is updated to newKey
CascadeUpdate(tagRows, oldKey, newKey) ==
    {IF tr.item_key = oldKey THEN [tr EXCEPT !.item_key = newKey] ELSE tr :
        tr \in tagRows}

\* the keys a call has written with this.set(): the calls that throw or
\* return NaN do not reach it or are rolled back, and a pop reaches it when
\* it has taken something out or was a single pop from a list
ReplacedKeys(op, arg, res, old) ==
    IF op \in {"set", "getSet", "append"} THEN {arg[1]}
    ELSE IF op \in {"incr", "decr", "hSet", "hmSet", "hIncr", "hDecr", "lPush", "rPush"}
    THEN (IF res.kind \in {"NaN", "TypeError", "[NO_ARRAY_ERROR]"} THEN {}
          ELSE {arg[1]})
    ELSE IF op = "setItems"
    THEN (IF res.kind = "undefined" THEN {item.key : item \in Range(arg)} ELSE {})
    ELSE IF op = "hDelete"
    THEN (IF res.kind = "boolean" THEN {arg[1]} ELSE {})
    ELSE IF op \in {"lPop", "rPop"}
    THEN (IF res.kind \in {"[NO_ARRAY_ERROR]", "[INVALID_COUNT_ERROR]"} THEN {}
          ELSE IF res.kind # "undefined" THEN {arg[1]}
          ELSE IF old.kind = "array" /\ arg[2] = <<>> THEN {arg[1]}
          ELSE {})
    ELSE {}

\* INSERT OR REPLACE INTO items deletes the row it replaces, and every
\* DELETE FROM items deletes the rows of `tags` that refer to the row: the
\* rows of `tags` a call leaves that leaves table `rows`
TagsAfter(tagRows, op, arg, res, old, before, rows) ==
    CascadeDelete(tagRows, (KeysOf(before) \ KeysOf(rows))
                              \cup ReplacedKeys(op, arg, res, old))

\* one call: it leaves table `rows` in `items` and `tagRows` in `tags` and
\* returns `res`; `old` is what its inner get() returned
CallTags(op, arg, res, rows, old, tagRows) ==
    /\ items' = rows
    /\ tags' = tagRows
    /\ last' = [op |-> op, arg |-> arg, res |-> res, before |-> KeysOf(items),
                old |-> old]
    /\ UNCHANGED <<ttlMs, now, maxExpiringItemsInDb, tx>>

\* one call that writes to `tags` only through the foreign key
CallWith(op, arg, res, rows, old) ==
    CallTags(op, arg, res, rows, old, TagsAfter(tags, op, arg, res, old, items, rows))

Call(op, arg, res, rows) == CallWith(op, arg, res, rows, Undefined)

\* one call of set(key, value, ttlMs)
Set(key, v, ttl) ==
    Call("set", <<key, v, ttl>>, Undefined, SetRows(items, key, v, ttl, ttlMs, now))

\* one call of get(key)
Get(key) ==
    Call("get", key, GetResult(items, key, now), GetRows(items, key, now))

---------------------------------------------------------------------------
(* delete / clear / deleteExpired *)

\* the argument of delete(), getItems(), getKeys(): a string, an array of
\* strings, or nothing
StrArg(key)  == [type |-> "string", str |-> key, arr |-> <<>>]
ArrArg(keys) == [type |-> "array", str |-> <<>>, arr |-> keys]
NoArg        == [type |-> "undefined", str |-> <<>>, arr |-> <<>>]

RECURSIVE DeleteEach(_, _)
DeleteEach(rows, keys) ==
    IF keys = <<>> THEN rows
    ELSE DeleteEach(deleteStatement(rows, Head(keys)), Tail(keys))

\* delete(keyOrKeys): a string deletes one row, an array with a length
\* deletes the rows of its keys, anything else deletes all rows
DeleteRows(rows, arg) ==
    IF arg.type = "string" THEN deleteStatement(rows, arg.str)
    ELSE IF arg.type = "array" /\ Len(arg.arr) # 0 THEN DeleteEach(rows, arg.arr)
    ELSE clearStatement(rows)

Delete(arg) ==
    Call("delete", arg, Undefined, DeleteRows(items, arg))

\* clear() is delete()
Clear ==
    Call("clear", NoArg, Undefined, DeleteRows(items, NoArg))

DeleteExpired ==
    Call("deleteExpired", <<>>, Undefined, deleteExpiredStatement(items, now))

---------------------------------------------------------------------------
(* getCount / getCountValid / has *)

\* SELECT COUNT(*) FROM items
countStatement(rows) == Cardinality(rows)

\* SELECT COUNT(*) FROM items WHERE expires IS NULL OR expires > $now
countValidStatement(rows, t) ==
    Cardinality({r \in rows : r.expires = NULL \/ r.expires > t})

GetCount ==
    Call("getCount", <<>>, CountResult(countStatement(items)), items)

\* a getCountValid() that sweeps whatever its argument
GetCountValidRows_AlwaysSweeps(rows, sweep, t) == deleteExpiredStatement(rows, t)

\* getCountValid(deleteExpired): the table it leaves
GetCountValidRows(rows, sweep, t) ==
    IF sweep = TRUE THEN deleteExpiredStatement(rows, t) ELSE rows

\* a getCountValid(true) that sweeps and then runs the countValid query
GetCountValidResult_CountsValid(rows, sweep, t) ==
    IF sweep = TRUE THEN CountResult(countValidStatement(deleteExpiredStatement(rows, t), t))
    ELSE CountResult(countValidStatement(rows, t))

\* getCountValid(deleteExpired): what it returns
GetCountValidResult(rows, sweep, t) ==
    IF sweep = TRUE THEN CountResult(countStatement(deleteExpiredStatement(rows, t)))
    ELSE CountResult(countValidStatement(rows, t))

GetCountValid(sweep) ==
    Call("getCountValid", sweep, GetCountValidResult(items, sweep, now),
         GetCountValidRows(items, sweep, now))

\* has(key): what it returns
HasResult(rows, key, t) ==
    IF ~HasRow(rows, key) THEN BoolResult(FALSE)
    ELSE BoolResult(~IsExpired(RowOf(rows, key).expires, t))

\* a has() that leaves the expired row in the table
HasRows_KeepsExpired(rows, key, t) == rows

\* has(key): the table it leaves
HasRows(rows, key, t) ==
    IF HasRow(rows, key) /\ IsExpired(RowOf(rows, key).expires, t)
    THEN deleteStatement(rows, key)
    ELSE rows

Has(key) ==
    Call("has", key, HasResult(items, key, now), HasRows(items, key, now))

---------------------------------------------------------------------------
(* setTtl *)

\* an UPDATE without its WHERE clause
setExpiresStatement_NoWhere(rows, key, expires) ==
    {[r EXCEPT !.expires = expires] : r \in rows}

\* UPDATE items SET expires = $expires WHERE key = $key
setExpiresStatement(rows, key, expires) ==
    {IF r.key = key THEN [r EXCEPT !.expires = expires] ELSE r : r \in rows}

\* setTtl(key, ttlMs): true when the UPDATE changed one row
SetTtlResult(rows, key) == BoolResult(Cardinality({r \in rows : r.key = key}) = 1)

SetTtl(key, ttl) ==
    Call("setTtl", <<key, ttl>>, SetTtlResult(items, key),
         setExpiresStatement(items, key, ExpiresFor(ttl, ttlMs, now)))

---------------------------------------------------------------------------
(* getItems / getKeys / getValues *)

\* the rows of a scan as a list, in key order (the order of the primary key)
RECURSIVE RowList(_)
RowList(rows) ==
    IF rows = {} THEN <<>>
    ELSE LET first == CHOOSE r \in rows : \A q \in rows : ~KeyLess(q.key, r.key)
         IN  <<first>> \o RowList(rows \ {first})

\* SELECT ... FROM items WHERE key = $key OR key >= $gte AND key < $lt
getItemsStartsWithStatement(rows, key, gte, lt) ==
    {r \in rows : r.key = key \/ (KeyLeq(gte, r.key) /\ KeyLess(r.key, lt))}

\* getItems(): `records` of the array branch, {...record, key} per key
RECURSIVE ItemRecordsOf(_, _)
ItemRecordsOf(rows, keys) ==
    IF keys = <<>> THEN <<>>
    ELSE LET key    == Head(keys)
             record == IF HasRow(rows, key) THEN RowOf(rows, key) ELSE NoRecord
         IN  <<[record EXCEPT !.key = key]>> \o ItemRecordsOf(rows, Tail(keys))

\* getItems(): `records`
ItemRecords(rows, arg) ==
    IF arg.type = "string" /\ arg.str # <<>>
    THEN RowList(getItemsStartsWithStatement(rows, arg.str,
                     Append(arg.str, MIN_UTF8_CHAR), Append(arg.str, MAX_UTF8_CHAR)))
    ELSE IF arg.type = "array" THEN ItemRecordsOf(rows, arg.arr)
    ELSE RowList(rows)

\* getKeys(): `records` of the array branch, without the keys that have no row
RECURSIVE KeyRecordsOf(_, _)
KeyRecordsOf(rows, keys) ==
    IF keys = <<>> THEN <<>>
    ELSE LET key == Head(keys)
         IN  (IF HasRow(rows, key) THEN <<RowOf(rows, key)>> ELSE <<>>)
             \o KeyRecordsOf(rows, Tail(keys))

\* getKeys(): `records` (getKeysStartsWithStatement has the WHERE clause of
\* getItemsStartsWithStatement)
KeyRecords(rows, arg) ==
    IF arg.type = "string" /\ arg.str # <<>>
    THEN RowList(getItemsStartsWithStatement(rows, arg.str,
                     Append(arg.str, MIN_UTF8_CHAR), Append(arg.str, MAX_UTF8_CHAR)))
    ELSE IF arg.type = "array" THEN KeyRecordsOf(rows, arg.arr)
    ELSE RowList(rows)

\* a loop that marks every record that carries a stamp
KeysToDelete_AllStamped(records, t) ==
    LET Stamped(record) == record.expires # NULL
        marked == SelectSeq(records, Stamped)
    IN  [i \in 1..Len(marked) |-> marked[i].key]

\* the loop over `records`: the keys marked for deletion
RECURSIVE KeysToDelete(_, _)
KeysToDelete(records, t) ==
    IF records = <<>> THEN <<>>
    ELSE (IF IsExpired(Head(records).expires, t) THEN <<Head(records).key>> ELSE <<>>)
         \o KeysToDelete(Tail(records), t)

\* the loop over `records`: the items pushed to `result`
RECURSIVE ResultItems(_, _)
ResultItems(records, t) ==
    IF records = <<>> THEN <<>>
    ELSE (IF IsExpired(Head(records).expires, t) THEN <<>>
          ELSE <<[key |-> Head(records).key, value |-> DecodeValue(Head(records).value)]>>)
         \o ResultItems(Tail(records), t)

\* "Delete expired keys": delete(keysToDelete[0]) for one key,
\* delete(keysToDelete) for more
DeleteMarked(rows, keysToDelete) ==
    IF Len(keysToDelete) = 1 THEN DeleteRows(rows, StrArg(keysToDelete[1]))
    ELSE IF Len(keysToDelete) > 1 THEN DeleteRows(rows, ArrArg(keysToDelete))
    ELSE rows

\* `if (result.length) return result`
ListOrUndefined(result) == IF Len(result) # 0 THEN ListResult(result) ELSE Undefined

\* getItems(startsWithOrKeys): what it returns
GetItemsResult(rows, arg, t) ==
    LET records == ItemRecords(rows, arg)
    IN  IF Len(records) = 0 THEN Undefined
        ELSE ListOrUndefined(ResultItems(records, t))

\* getItems(startsWithOrKeys): the table it leaves
GetItemsRows(rows, arg, t) ==
    LET records == ItemRecords(rows, arg)
    IN  IF Len(records) = 0 THEN rows
        ELSE DeleteMarked(rows, KeysToDelete(records, t))

GetItems(arg) ==
    Call("getItems", arg, GetItemsResult(items, arg, now), GetItemsRows(items, arg, now))

\* getValues(): getItems(startsWithOrKeys)?.map((result) => result.value)
GetValuesResult(rows, arg, t) ==
    LET got == GetItemsResult(rows, arg, t)
    IN  IF got = Undefined THEN Undefined
        ELSE ListResult([i \in 1..Len(got.val) |-> got.val[i].value])

GetValues(arg) ==
    Call("getValues", arg, GetValuesResult(items, arg, now), GetItemsRows(items, arg, now))

\* getKeys(startsWithOrKeys): what it returns
GetKeysResult(rows, arg, t) ==
    LET records == KeyRecords(rows, arg)
        kept    == ResultItems(records, t)
    IN  IF Len(records) = 0 THEN Undefined
        ELSE ListOrUndefined([i \in 1..Len(kept) |-> kept[i].key])

\* getKeys(startsWithOrKeys): the table it leaves
GetKeysRows(rows, arg, t) ==
    LET records == KeyRecords(rows, arg)
    IN  IF Len(records) = 0 THEN rows
        ELSE DeleteMarked(rows, KeysToDelete(records, t))

GetKeys(arg) ==
    Call("getKeys", arg, GetKeysResult(items, arg, now), GetKeysRows(items, arg, now))

---------------------------------------------------------------------------
(* getRandomKey / getRandomItem / getRandomValue *)

\* SELECT key FROM items WHERE expires IS NULL OR expires > $now
\* ORDER BY RANDOM() LIMIT 1: the rows it can return
RandomRows(rows, t) == {r \in rows : r.expires = NULL \/ r.expires > t}

\* `?.key ?? undefined`
GetRandomKey ==
    \/ \E r \in RandomRows(items, now) :
          Call("getRandomKey", <<>>, [kind |-> "key", val |-> r.key], items)
    \/ /\ RandomRows(items, now) = {}
       /\ Call("getRandomKey", <<>>, Undefined, items)

\* SELECT key, value FROM items WHERE key = (SELECT key ... LIMIT 1)
GetRandomItem ==
    \/ \E r \in RandomRows(items, now) :
          Call("getRandomItem", <<>>,
               [kind |-> "item", val |-> [key |-> r.key, value |-> DecodeValue(r.value)]],
               items)
    \/ /\ RandomRows(items, now) = {}
       /\ Call("getRandomItem", <<>>, Undefined, items)

\* getRandomValue(): the value of randomItem()
GetRandomValue ==
    \/ \E r \in RandomRows(items, now) :
          Call("getRandomValue", <<>>, DecodeValue(r.value), items)
    \/ /\ RandomRows(items, now) = {}
       /\ Call("getRandomValue", <<>>, Undefined, items)

\* time passes between two calls
Tick ==
    /\ now < MaxTime
    /\ now' = now + 1
    /\ last' = [op |-> "tick", arg |-> <<>>, res |-> Undefined, before |-> KeysOf(items),
                old |-> Undefined]
    /\ UNCHANGED <<items, ttlMs, maxExpiringItemsInDb, tx, tags>>

---------------------------------------------------------------------------
(* incr / decr / getSet *)

Num(n) == [kind |-> "number", val |-> <<n>>]

\* the not-a-number value
NaN == [kind |-> "NaN", val |-> <<>>]

\* `incrBy: number = 1`: an optional number argument is <<>> when omitted
\* and <<n>> when given
ByOrDefault(by) == IF by = <<>> THEN 1 ELSE by[1]

\* `value ?? other`
Coalesce(v, other) == IF v.kind \in {"undefined", "null"} THEN other ELSE v

IsDigits(str) == str # <<>> /\ \A i \in 1..Len(str) : str[i] \in 48..57

RECURSIVE DigitsValue(_)
DigitsValue(str) ==
    IF str = <<>> THEN 0
    ELSE 10 * DigitsValue(SubSeq(str, 1, Len(str) - 1)) + (str[Len(str)] - 48)

\* white space (U+0020) stripped from both ends
RECURSIVE Trim(_)
Trim(str) ==
    IF str = <<>> THEN str
    ELSE IF Head(str) = 32 THEN Trim(Tail(str))
    ELSE IF str[Len(str)] = 32 THEN Trim(SubSeq(str, 1, Len(str) - 1))
    ELSE str

\* Number(string) on strings of spaces, signs, digits and letters: the
\* empty string is 0, a signed decimal literal its value, the rest NaN
StringToNumber(str) ==
    LET t == Trim(str)
    IN  IF t = <<>> THEN Num(0)
        ELSE IF IsDigits(t) THEN Num(DigitsValue(t))
        ELSE IF t[1] = 43 /\ IsDigits(Tail(t)) THEN Num(DigitsValue(Tail(t)))
        ELSE IF t[1] = 45 /\ IsDigits(Tail(t)) THEN Num(0 - DigitsValue(Tail(t)))
        ELSE NaN

\* Number(value)
ToNumber(v) ==
    CASE v.kind = "number" -> v
      [] v.kind = "string" -> StringToNumber(v.val)
      [] v.kind = "null"   -> Num(0)
      [] v.kind = "array"  -> IF v.val = <<>> THEN Num(0)
                              ELSE IF Len(v.val) = 1 THEN Num(v.val[1])
                              ELSE NaN
      [] OTHER             -> NaN

\* incr(): newValue = Number(this.get(key) ?? 0) + incrBy
IncrNewValue(rows, key, incrBy, t) ==
    LET n == ToNumber(Coalesce(GetResult(rows, key, t), Num(0)))
    IN  IF n = NaN THEN NaN ELSE Num(n.val[1] + incrBy)

\* an incr() that starts again from 0 when Number() gave NaN
IncrRows_NaNAsZero(rows, key, incrBy, ttl, default, t) ==
    LET newValue == IncrNewValue(rows, key, incrBy, t)
    IN  SetRows(GetRows(rows, key, t), key,
                IF newValue = NaN THEN Num(incrBy) ELSE newValue, ttl, default, t)

\* incr(): the table it leaves: nothing is written when newValue is NaN
IncrRows(rows, key, incrBy, ttl, default, t) ==
    LET newValue == IncrNewValue(rows, key, incrBy, t)
    IN  IF newValue = NaN THEN GetRows(rows, key, t)
        ELSE SetRows(GetRows(rows, key, t), key, newValue, ttl, default, t)

Incr(key, by, ttl) ==
    CallWith("incr", <<key, by, ttl>>,
             IncrNewValue(items, key, ByOrDefault(by), now),
             IncrRows(items, key, ByOrDefault(by), ttl, ttlMs, now),
             GetResult(items, key, now))

\* a decr() that passes decrBy on as it is
DecrBy_NotNegated(by) == ByOrDefault(by)

\* decr(): incr(key, decrBy * -1, ttlMs)
DecrBy(by) == ByOrDefault(by) * (-1)

Decr(key, by, ttl) ==
    CallWith("decr", <<key, by, ttl>>,
             IncrNewValue(items, key, DecrBy(by), now),
             IncrRows(items, key, DecrBy(by), ttl, ttlMs, now),
             GetResult(items, key, now))

\* a getSet() that reads after it wrote
GetSetResult_ReadsAfterWrite(rows, key, v, t) == v

\* getSet(): oldValue = this.get(key), read before the set
GetSetResult(rows, key, v, t) == GetResult(rows, key, t)

GetSetRows(rows, key, v, ttl, default, t) ==
    SetRows(GetRows(rows, key, t), key, v, ttl, default, t)

GetSet(key, v, ttl) ==
    CallWith("getSet", <<key, v, ttl>>, GetSetResult(items, key, v, now),
             GetSetRows(items, key, v, ttl, ttlMs, now), GetResult(items, key, now))

---------------------------------------------------------------------------
(* append *)

Str(chars) == [kind |-> "string", val |-> chars]

\* the decimal digits of a natural number
RECURSIVE DigitsOf(_)
DigitsOf(n) ==
    IF n < 10 THEN <<48 + n>> ELSE DigitsOf(n \div 10) \o <<48 + (n % 10)>>

\* the elements of an Array of numbers joined by ","
RECURSIVE JoinNumbers(_)
JoinNumbers(elements) ==
    IF elements = <<>> THEN <<>>
    ELSE LET n    == Head(elements)
             text == IF n < 0 THEN <<45>> \o DigitsOf(0 - n) ELSE DigitsOf(n)
         IN  IF Tail(elements) = <<>> THEN text
             ELSE text \o <<44>> \o JoinNumbers(Tail(elements))

\* String(value): a string is itself, a number its decimal literal, an
\* Array its elements joined by ",", and a plain object, a Map or a Set
\* "[object Object]", "[object Map]", "[object Set]"
StringOf(v) ==
    CASE v.kind = "string" -> v.val
      [] v.kind = "number" -> JoinNumbers(v.val)
      [] v.kind = "array"  -> JoinNumbers(v.val)
      [] v.kind = "map"    -> <<91, 111, 98, 106, 101, 99, 116, 32, 77, 97, 112, 93>>
      [] v.kind = "set"    -> <<91, 111, 98, 106, 101, 99, 116, 32, 83, 101, 116, 93>>
      [] OTHER             -> <<91, 111, 98, 106, 101, 99, 116, 32,
                                79, 98, 106, 101, 99, 116, 93>>

\* append(): newValue = String(this.get(key) ?? "") + value
AppendNewValue(rows, key, value, t) ==
    Str(StringOf(Coalesce(GetResult(rows, key, t), Str(<<>>))) \o value.val)

\* append(): this.set(key, newValue, ttlMs) after the get()
AppendRows(rows, key, value, ttl, default, t) ==
    SetRows(GetRows(rows, key, t), key, AppendNewValue(rows, key, value, t),
            ttl, default, t)

\* one call of append(key, value, ttlMs): returns newValue.length
append(key, value, ttl) ==
    CallWith("append", <<key, value, ttl>>,
             Num(Len(AppendNewValue(items, key, value, now).val)),
             AppendRows(items, key, value, ttl, ttlMs, now),
             GetResult(items, key, now))

---------------------------------------------------------------------------
(* rename / deleteOldExpiringItems *)

\* UPDATE items SET key = $newKey WHERE key = $oldKey
renameStatement(rows, oldKey, newKey) ==
    {IF r.key = oldKey THEN [r EXCEPT !.key = newKey] ELSE r : r \in rows}

\* rename(): true when has(oldKey)
RenameResult(rows, oldKey, newKey, t) == HasResult(rows, oldKey, t)

\* a rename() that deletes newKey before it looks for oldKey
RenameRows_DeletesFirst(rows, oldKey, newKey, t) ==
    LET afterDelete == deleteStatement(rows, newKey)
    IN  IF HasResult(afterDelete, oldKey, t) = BoolResult(TRUE)
        THEN renameStatement(afterDelete, oldKey, newKey)
        ELSE HasRows(afterDelete, oldKey, t)

\* rename(): has(oldKey), then DELETE newKey, then UPDATE key
RenameRows(rows, oldKey, newKey, t) ==
    LET afterHas == HasRows(rows, oldKey, t)
    IN  IF HasResult(rows, oldKey, t) = BoolResult(TRUE)
        THEN renameStatement(deleteStatement(afterHas, newKey), oldKey, newKey)
        ELSE afterHas

\* rename(): the rows of `tags` it leaves: those of an expired oldKey and
\* those of newKey go with their rows, those of oldKey follow the UPDATE
RenameTags(tagRows, rows, oldKey, newKey, t) ==
    LET afterHas == CascadeDelete(tagRows, KeysOf(rows) \ KeysOf(HasRows(rows, oldKey, t)))
    IN  IF HasResult(rows, oldKey, t) = BoolResult(TRUE)
        THEN CascadeUpdate(CascadeDelete(afterHas, {newKey}), oldKey, newKey)
        ELSE afterHas

Rename(oldKey, newKey) ==
    CallTags("rename", <<oldKey, newKey>>, RenameResult(items, oldKey, newKey, now),
             RenameRows(items, oldKey, newKey, now), Undefined,
             RenameTags(tags, items, oldKey, newKey, now))

\* SELECT COUNT(*) FROM items WHERE expires IS NOT NULL
countExpiringStatement(rows) == Cardinality({r \in rows : r.expires # NULL})

\* a subquery that takes the rows that expire last: ORDER BY expires DESC
deleteExpiringVictims_NewestFirst(rows, limit) ==
    LET expiring == {r \in rows : r.expires # NULL}
    IN  {victims \in SUBSET expiring :
            /\ Cardinality(victims) = limit
            /\ \A v \in victims, r \in expiring \ victims : v.expires >= r.expires}

\* SELECT key FROM items WHERE expires IS NOT NULL ORDER BY expires ASC
\* LIMIT $limit: the sets of rows it can select (rows with the same stamp
\* come in either order)
deleteExpiringVictims(rows, limit) ==
    LET expiring == {r \in rows : r.expires # NULL}
    IN  {victims \in SUBSET expiring :
            /\ Cardinality(victims) = limit
            /\ \A v \in victims, r \in expiring \ victims : v.expires <= r.expires}

\* deleteOldExpiringItems(): maxExpiringItemsInDb ?? this.maxExpiringItemsInDb
MaxExpiringItems(arg, default) == IF arg = UNDEFINED_MAX THEN default ELSE arg

\* deleteOldExpiringItems(maxExpiringItemsInDb)
DeleteOldExpiringItems(arg) ==
    LET maxExpiringItems == MaxExpiringItems(arg, maxExpiringItemsInDb)
        count            == countExpiringStatement(items)
    IN  \/ /\ maxExpiringItems = UNDEFINED_MAX
           /\ Call("deleteOldExpiringItems", arg, Undefined, items)
        \/ /\ maxExpiringItems # UNDEFINED_MAX
           /\ count <= maxExpiringItems
           /\ Call("deleteOldExpiringItems", arg, Undefined, items)
        \/ /\ maxExpiringItems # UNDEFINED_MAX
           /\ count > maxExpiringItems
           /\ \E victims \in deleteExpiringVictims(items, count - maxExpiringItems) :
                 Call("deleteOldExpiringItems", arg, Undefined, items \ victims)

---------------------------------------------------------------------------
(* new BunSqliteKeyValue(filename, options) over a file that holds rows *)

\* a constructor that counts the stamped rows before it sweeps the expired
\* ones and evicts that many of the rows the sweep left
ConstructRows_CountsBeforeSweep(rows, cap, t) ==
    LET swept == deleteExpiredStatement(rows, t)
        count == countExpiringStatement(rows)
        left  == countExpiringStatement(swept)
        limit == IF count - cap <= left THEN count - cap ELSE left
    IN  IF cap = UNDEFINED_MAX \/ count <= cap
        THEN {swept}
        ELSE {swept \ victims : victims \in deleteExpiringVictims(swept, limit)}

\* the constructor's last two statements: this.deleteExpired(), then
\* this.deleteOldExpiringItems() under the cap of the options; the tables
\* they can leave
ConstructRows(rows, cap, t) ==
    LET swept == deleteExpiredStatement(rows, t)
        count == countExpiringStatement(swept)
    IN  IF MaxExpiringItems(UNDEFINED_MAX, cap) = UNDEFINED_MAX \/ count <= cap
        THEN {swept}
        ELSE {swept \ victims : victims \in deleteExpiringVictims(swept, count - cap)}

\* a store is constructed over the file, with options {ttlMs,
\* maxExpiringItemsInDb}
Construct(ttl, cap) ==
    \E rows \in ConstructRows(items, cap, now) :
        /\ items' = rows
        /\ ttlMs' = ttl
        /\ maxExpiringItemsInDb' = cap
        /\ tags' = CascadeDelete(tags, KeysOf(items) \ KeysOf(rows))
        /\ last' = [op |-> "constructor", arg |-> <<ttl, cap>>, res |-> Undefined,
                    before |-> KeysOf(items), old |-> Undefined]
        /\ UNCHANGED <<now, tx>>

---------------------------------------------------------------------------
(* hSet / hGet *)

\* a Map: its entries <<field, value>> in insertion order
MapOf(entries) == [kind |-> "map", val |-> entries]

\* a call that throws a TypeError (a method the value does not have)
TypeError == [kind |-> "TypeError", val |-> <<>>]

\* map.has(field)
MapHas(entries, field) == \E i \in 1..Len(entries) : entries[i][1] = field

\* map.get(field)
MapGet(entries, field) ==
    IF MapHas(entries, field)
    THEN entries[CHOOSE i \in 1..Len(entries) : entries[i][1] = field][2]
    ELSE Undefined

\* map.set(field, value): a present field keeps its place
MapSet(entries, field, value) ==
    IF MapHas(entries, field)
    THEN [i \in 1..Len(entries) |->
            IF entries[i][1] = field THEN <<field, value>> ELSE entries[i]]
    ELSE Append(entries, <<field, value>>)

\* hSet(): map = this.get(key) ?? new Map()
HSetMap(rows, key, t) == Coalesce(GetResult(rows, key, t), MapOf(<<>>))

\* an hSet() that looks for the field after it has set it
HSetResult_AfterSet(rows, key, field, value, t) ==
    LET map == HSetMap(rows, key, t)
    IN  IF map.kind # "map" THEN TypeError
        ELSE BoolResult(~MapHas(MapSet(map.val, field, value), field))

\* hSet(): isNewField = !map.has(field); a value that is no Map has no
\* has() or set()
HSetResult(rows, key, field, value, t) ==
    LET map == HSetMap(rows, key, t)
    IN  IF map.kind # "map" THEN TypeError
        ELSE BoolResult(~MapHas(map.val, field))

\* hSet(): the table it leaves; the transaction is rolled back when it throws
HSetRows(rows, key, field, value, ttl, default, t) ==
    LET map == HSetMap(rows, key, t)
    IN  IF map.kind # "map" THEN rows
        ELSE SetRows(GetRows(rows, key, t), key,
                     MapOf(MapSet(map.val, field, value)), ttl, default, t)

HSet(key, field, value, ttl) ==
    CallWith("hSet", <<key, field, value, ttl>>,
             HSetResult(items, key, field, value, now),
             HSetRows(items, key, field, value, ttl, ttlMs, now),
             GetResult(items, key, now))

\* hGet(): undefined for a missing key, else map.get(field)
HGetResult(rows, key, field, t) ==
    LET map == GetResult(rows, key, t)
    IN  IF map = Undefined THEN Undefined
        ELSE IF map.kind # "map" THEN TypeError
        ELSE MapGet(map.val, field)

HGet(key, field) ==
    CallWith("hGet", <<key, field>>, HGetResult(items, key, field, now),
             GetRows(items, key, now), GetResult(items, key, now))

\* an hIncr() that counts from 0 when Number() gave NaN
HIncrNewValue_NaNAsZero(rows, key, field, incrBy, t) ==
    LET map == HSetMap(rows, key, t)
    IN  IF map.kind # "map" THEN NaN
        ELSE LET n == ToNumber(Coalesce(MapGet(map.val, field), Num(0)))
             IN  IF n = NaN THEN Num(incrBy) ELSE Num(n.val[1] + incrBy)

\* hIncr(): newValue = Number(map.get(field) ?? 0) + incrBy; a value that
\* is no Map has no get(), the TypeError is caught and NaN returned
HIncrNewValue(rows, key, field, incrBy, t) ==
    LET map == HSetMap(rows, key, t)
    IN  IF map.kind # "map" THEN NaN
        ELSE LET n == ToNumber(Coalesce(MapGet(map.val, field), Num(0)))
             IN  IF n = NaN THEN NaN ELSE Num(n.val[1] + incrBy)

\* hIncr(): the table it leaves: map.set(field, newValue) and
\* this.set(key, map, ttlMs) are reached only when newValue is a number
HIncrRows(rows, key, field, incrBy, ttl, default, t) ==
    LET map      == HSetMap(rows, key, t)
        newValue == HIncrNewValue(rows, key, field, incrBy, t)
    IN  IF newValue = NaN THEN GetRows(rows, key, t)
        ELSE SetRows(GetRows(rows, key, t), key,
                     MapOf(MapSet(map.val, field, newValue)), ttl, default, t)

HIncr(key, field, by, ttl) ==
    CallWith("hIncr", <<key, field, by, ttl>>,
             HIncrNewValue(items, key, field, ByOrDefault(by), now),
             HIncrRows(items, key, field, ByOrDefault(by), ttl, ttlMs, now),
             GetResult(items, key, now))

\* hDecr(): hIncr(key, field, decrBy * -1, ttlMs)
HDecr(key, field, by, ttl) ==
    CallWith("hDecr", <<key, field, by, ttl>>,
             HIncrNewValue(items, key, field, DecrBy(by), now),
             HIncrRows(items, key, field, DecrBy(by), ttl, ttlMs, now),
             GetResult(items, key, now))

---------------------------------------------------------------------------
(* hmSet / hDelete *)

\* Object.entries(fields).forEach(([field, value]) => map.set(field, value))
RECURSIVE MapSetEach(_, _)
MapSetEach(entries, fields) ==
    IF fields = <<>> THEN entries
    ELSE MapSetEach(MapSet(entries, Head(fields)[1], Head(fields)[2]), Tail(fields))

\* hmSet(): nothing is returned; a value that is no Map has no set(), which
\* is called once for each field
HmSetResult(rows, key, fields, t) ==
    IF fields # <<>> /\ HSetMap(rows, key, t).kind # "map" THEN TypeError ELSE Undefined

\* hmSet(): the table it leaves; the transaction is rolled back when it throws
HmSetRows(rows, key, fields, ttl, default, t) ==
    LET map == HSetMap(rows, key, t)
    IN  IF HmSetResult(rows, key, fields, t) = TypeError THEN rows
        ELSE SetRows(GetRows(rows, key, t), key,
                     IF map.kind = "map" THEN MapOf(MapSetEach(map.val, fields)) ELSE map,
                     ttl, default, t)

HmSet(key, fields, ttl) ==
    CallWith("hmSet", <<key, fields, ttl>>, HmSetResult(items, key, fields, now),
             HmSetRows(items, key, fields, ttl, ttlMs, now), GetResult(items, key, now))

\* map.delete(field)
MapDelete(entries, field) == SelectSeq(entries, LAMBDA e : e[1] # field)

\* hDelete(): undefined for a missing key, else result = map.delete(field),
\* which a Map and a Set have (a Set of numbers holds no field name)
HDeleteResult(rows, key, field, t) ==
    LET map == GetResult(rows, key, t)
    IN  IF map = Undefined THEN Undefined
        ELSE IF map.kind = "map" THEN BoolResult(MapHas(map.val, field))
        ELSE IF map.kind = "set" THEN BoolResult(FALSE)
        ELSE TypeError

\* an hDelete() that passes the expiry stamp of the item on to set()
HDeleteRows_KeepsStamp(rows, key, field, default, t) ==
    LET map == GetResult(rows, key, t)
    IN  IF map = Undefined THEN GetRows(rows, key, t)
        ELSE IF map.kind \notin {"map", "set"} THEN rows
        ELSE setItemStatement(rows, key,
                 serialize(IF map.kind = "map" THEN MapOf(MapDelete(map.val, field)) ELSE map),
                 RowOf(rows, key).expires)

\* hDelete(): the table it leaves: this.set(key, map) without ttlMs; the
\* transaction is rolled back when it throws
HDeleteRows(rows, key, field, default, t) ==
    LET map == GetResult(rows, key, t)
    IN  IF map = Undefined THEN GetRows(rows, key, t)
        ELSE IF map.kind \notin {"map", "set"} THEN rows
        ELSE SetRows(rows, key,
                     IF map.kind = "map" THEN MapOf(MapDelete(map.val, field)) ELSE map,
                     UNDEFINED_TTL, default, t)

\* the record the get() of hDelete() reads: {value, expires}, decoded
ReadRecord(rows, key, t) ==
    [kind |-> "record",
     val  |-> <<GetResult(rows, key, t),
                IF HasRow(rows, key) THEN RowOf(rows, key).expires ELSE NULL>>]

HDelete(key, field) ==
    CallWith("hDelete", <<key, field>>, HDeleteResult(items, key, field, now),
             HDeleteRows(items, key, field, ttlMs, now), ReadRecord(items, key, now))

---------------------------------------------------------------------------
(* getItem / getTtl / hmGet / hGetFields *)

\* getItem(key): {key, value: this.get(key)}
GetItem(key) ==
    Call("getItem", key, [key |-> key, value |-> GetResult(items, key, now)],
         GetRows(items, key, now))

\* getTtl(key): undefined without a row, without a stamp and for a stamp
\* before Date.now(), else expires - now
GetTtlResult(rows, key, t) ==
    IF ~HasRow(rows, key) THEN Undefined
    ELSE LET expires == RowOf(rows, key).expires
         IN  IF expires = NULL \/ expires = 0 THEN Undefined
             ELSE IF expires < t THEN Undefined
             ELSE Num(expires - t)

\* getTtl(key): the table it leaves: this.delete(key) for a stamp before
\* Date.now()
GetTtlRows(rows, key, t) ==
    IF HasRow(rows, key) /\ IsExpired(RowOf(rows, key).expires, t)
    THEN deleteStatement(rows, key)
    ELSE rows

GetTtl(key) ==
    Call("getTtl", key, GetTtlResult(items, key, now), GetTtlRows(items, key, now))

\* a plain object: its entries <<name, value>>
ObjOf(entries) == [kind |-> "object", val |-> entries]

\* hmGet(key, fields?): undefined for a missing key; with `fields` the
\* object of map.get(field), without it the object of map.entries(), which
\* an Array has as well (its indexes and elements)
HmGetResult(rows, key, fields, t) ==
    LET map == GetResult(rows, key, t)
    IN  IF map = Undefined THEN Undefined
        ELSE IF fields.type = "array"
        THEN IF fields.arr = <<>> THEN ObjOf(<<>>)
             ELSE IF map.kind # "map" THEN TypeError
             ELSE ObjOf(MapSetEach(<<>>, [i \in 1..Len(fields.arr) |->
                            <<fields.arr[i], MapGet(map.val, fields.arr[i])>>]))
        ELSE IF map.kind = "map" THEN ObjOf(map.val)
        ELSE IF map.kind = "array"
        THEN ObjOf([i \in 1..Len(map.val) |-> <<i - 1, Num(map.val[i])>>])
        ELSE TypeError

HmGet(key, fields) ==
    CallWith("hmGet", <<key, fields>>, HmGetResult(items, key, fields, now),
             GetRows(items, key, now), GetResult(items, key, now))

\* hGetFields(key): undefined for a missing key, else
\* Array.from(map.keys()), which an Array has as well (its indexes)
HGetFieldsResult(rows, key, t) ==
    LET map == GetResult(rows, key, t)
    IN  IF map = Undefined THEN Undefined
        ELSE IF map.kind = "map"
        THEN ListResult([i \in 1..Len(map.val) |-> map.val[i][1]])
        ELSE IF map.kind = "array"
        THEN ListResult([i \in 1..Len(map.val) |-> i - 1])
        ELSE IF map.kind = "set" THEN ListResult(map.val)
        ELSE TypeError

HGetFields(key) ==
    CallWith("hGetFields", <<key>>, HGetFieldsResult(items, key, now),
             GetRows(items, key, now), GetResult(items, key, now))

---------------------------------------------------------------------------
(* lPush / rPush / lPop / rPop / lIndex *)

\* an Array: its elements, numbers, in order
ArrOf(elements) == [kind |-> "array", val |-> elements]

\* the errors the list methods throw
INVALID_COUNT_ERROR_LABEL == [kind |-> "[INVALID_COUNT_ERROR]", val |-> <<>>]
NO_ARRAY_ERROR_LABEL      == [kind |-> "[NO_ARRAY_ERROR]", val |-> <<>>]

\* the methods among unshift, push, shift, pop, splice and at that a value
\* has: an Array has all of them, a string has String.prototype.at, any
\* other value none (calling a method a value lacks is a TypeError)
ListMethods(v) ==
    CASE v.kind = "array"  -> {"unshift", "push", "shift", "pop", "splice", "at"}
      [] v.kind = "string" -> {"at"}
      [] OTHER             -> {}

\* `count?: number`: an optional number argument is <<>> when omitted
NoCount == <<>>

\* an lPush() that puts all values in front at once: array.unshift(...values)
UnshiftEach_AtOnce(elements, values) == values \o elements

\* values.forEach((value) => array.unshift(value))
RECURSIVE UnshiftEach(_, _)
UnshiftEach(elements, values) ==
    IF values = <<>> THEN elements
    ELSE UnshiftEach(<<Head(values)>> \o elements, Tail(values))

\* lPush(): array = this.get(key) ?? new Array()
ListOrNew(rows, key, t) == Coalesce(GetResult(rows, key, t), ArrOf(<<>>))

\* lPush(): newLength of the last unshift, undefined without values
LPushResult(rows, key, values, t) ==
    LET array == ListOrNew(rows, key, t)
    IN  IF values = <<>> THEN Undefined
        ELSE IF "unshift" \notin ListMethods(array) THEN NO_ARRAY_ERROR_LABEL
        ELSE CountResult(Len(UnshiftEach(array.val, values)))

\* lPush(): the table it leaves: this.set(key, array) without ttlMs; the
\* transaction is rolled back when it throws
LPushRows(rows, key, values, default, t) ==
    LET array == ListOrNew(rows, key, t)
    IN  IF LPushResult(rows, key, values, t) = NO_ARRAY_ERROR_LABEL THEN rows
        ELSE SetRows(GetRows(rows, key, t), key,
                     IF values = <<>> THEN array
                     ELSE ArrOf(UnshiftEach(array.val, values)),
                     UNDEFINED_TTL, default, t)

LPush(key, values) ==
    CallWith("lPush", <<key, values>>, LPushResult(items, key, values, now),
             LPushRows(items, key, values, ttlMs, now), GetResult(items, key, now))

\* rPush(): newLength = array.push(...values)
RPushResult(rows, key, values, t) ==
    LET array == ListOrNew(rows, key, t)
    IN  IF "push" \notin ListMethods(array) THEN NO_ARRAY_ERROR_LABEL
        ELSE CountResult(Len(array.val \o values))

RPushRows(rows, key, values, default, t) ==
    LET array == ListOrNew(rows, key, t)
    IN  IF RPushResult(rows, key, values, t) = NO_ARRAY_ERROR_LABEL THEN rows
        ELSE SetRows(GetRows(rows, key, t), key, ArrOf(array.val \o values),
                     UNDEFINED_TTL, default, t)

RPush(key, values) ==
    CallWith("rPush", <<key, values>>, RPushResult(items, key, values, now),
             RPushRows(items, key, values, ttlMs, now), GetResult(items, key, now))

\* array.splice(start, deleteCount): the index after which it starts
SpliceStart(elements, start) ==
    IF start < 0
    THEN (IF Len(elements) + start < 0 THEN 0 ELSE Len(elements) + start)
    ELSE (IF start > Len(elements) THEN Len(elements) ELSE start)

\* array.splice(start, deleteCount): the number of elements it takes out
SpliceCount(elements, start, deleteCount) ==
    LET from == SpliceStart(elements, start)
        most == Len(elements) - from
    IN  IF deleteCount < 0 THEN 0
        ELSE IF deleteCount > most THEN most ELSE deleteCount

\* array.splice(start, deleteCount): the elements it returns
SpliceRemoved(elements, start, deleteCount) ==
    LET from == SpliceStart(elements, start)
    IN  SubSeq(elements, from + 1, from + SpliceCount(elements, start, deleteCount))

\* array.splice(start, deleteCount): the elements it leaves in the array
SpliceKept(elements, start, deleteCount) ==
    LET from == SpliceStart(elements, start)
        n    == SpliceCount(elements, start, deleteCount)
    IN  SubSeq(elements, 1, from) \o SubSeq(elements, from + n + 1, Len(elements))

\* array.reverse()
Reverse(elements) == [i \in 1..Len(elements) |-> elements[Len(elements) + 1 - i]]

\* an rPop() that leaves out result.reverse()
PopOrder_NotReversed(elements) == elements

\* rPop(): result.reverse()
PopOrder(elements) == Reverse(elements)

\* lPop(), rPop(): what the call takes out of the array, by the side
\* ("l" or "r") it pops from: [result, kept, set] with set telling whether
\* this.set(key, array) is reached
PopOf(array, side, count) ==
    IF array = Undefined
    THEN [result |-> Undefined, kept |-> array, set |-> FALSE]
    ELSE IF count = NoCount
    THEN IF (IF side = "l" THEN "shift" ELSE "pop") \notin ListMethods(array)
         THEN [result |-> NO_ARRAY_ERROR_LABEL, kept |-> array, set |-> FALSE]
         ELSE IF array.val = <<>>
         THEN [result |-> Undefined, kept |-> array, set |-> TRUE]
         ELSE IF side = "l"
         THEN [result |-> Num(Head(array.val)), kept |-> ArrOf(Tail(array.val)),
               set |-> TRUE]
         ELSE [result |-> Num(array.val[Len(array.val)]),
               kept |-> ArrOf(SubSeq(array.val, 1, Len(array.val) - 1)), set |-> TRUE]
    ELSE IF count[1] > 0
    THEN IF "splice" \notin ListMethods(array)
         THEN [result |-> NO_ARRAY_ERROR_LABEL, kept |-> array, set |-> FALSE]
         ELSE LET start   == IF side = "l" THEN 0 ELSE count[1] * (-1)
                  removed == SpliceRemoved(array.val, start, count[1])
              IN  IF removed = <<>>
                  THEN [result |-> Undefined, kept |-> array, set |-> FALSE]
                  ELSE [result |-> ArrOf(IF side = "l" THEN removed
                                         ELSE PopOrder(removed)),
                        kept |-> ArrOf(SpliceKept(array.val, start, count[1])),
                        set |-> TRUE]
    ELSE [result |-> INVALID_COUNT_ERROR_LABEL, kept |-> array, set |-> FALSE]

\* lPop(), rPop(): array = this.get(key), undefined when that is undefined
PopResult(rows, key, side, count, t) ==
    PopOf(GetResult(rows, key, t), side, count).result

\* a pop that writes the item back before it throws
PopRows_WritesFirst(rows, key, side, count, default, t) ==
    LET pop == PopOf(GetResult(rows, key, t), side, count)
    IN  IF pop.set \/ pop.result \in {NO_ARRAY_ERROR_LABEL, INVALID_COUNT_ERROR_LABEL}
        THEN SetRows(GetRows(rows, key, t), key, pop.kept, UNDEFINED_TTL, default, t)
        ELSE GetRows(rows, key, t)

\* lPop(), rPop(): the table they leave: this.set(key, array) without
\* ttlMs; the transaction is rolled back when they throw
PopRows(rows, key, side, count, default, t) ==
    LET pop == PopOf(GetResult(rows, key, t), side, count)
    IN  IF pop.result \in {NO_ARRAY_ERROR_LABEL, INVALID_COUNT_ERROR_LABEL} THEN rows
        ELSE IF pop.set
        THEN SetRows(GetRows(rows, key, t), key, pop.kept, UNDEFINED_TTL, default, t)
        ELSE GetRows(rows, key, t)

LPop(key, count) ==
    CallWith("lPop", <<key, count>>, PopResult(items, key, "l", count, now),
             PopRows(items, key, "l", count, ttlMs, now), GetResult(items, key, now))

RPop(key, count) ==
    CallWith("rPop", <<key, count>>, PopResult(items, key, "r", count, now),
             PopRows(items, key, "r", count, ttlMs, now), GetResult(items, key, now))

\* an lIndex() that counts a negative index from the first element
At_NoWrap(v, index) ==
    LET i == IF index < 0 THEN 0 - index ELSE index
    IN  IF i >= Len(v.val) THEN Undefined
        ELSE IF v.kind = "array" THEN Num(v.val[i + 1])
        ELSE [kind |-> "string", val |-> <<v.val[i + 1]>>]

\* array.at(index) and string.at(index)
At(v, index) ==
    LET i == IF index < 0 THEN Len(v.val) + index ELSE index
    IN  IF i < 0 \/ i >= Len(v.val) THEN Undefined
        ELSE IF v.kind = "array" THEN Num(v.val[i + 1])
        ELSE [kind |-> "string", val |-> <<v.val[i + 1]>>]

\* lIndex(): undefined for a missing key, else array.at(index)
LIndexResult(rows, key, index, t) ==
    LET array == GetResult(rows, key, t)
    IN  IF array = Undefined THEN Undefined
        ELSE IF "at" \notin ListMethods(array) THEN NO_ARRAY_ERROR_LABEL
        ELSE At(array, index)

LIndex(key, index) ==
    CallWith("lIndex", <<key, index>>, LIndexResult(items, key, index, now),
             GetRows(items, key, now), GetResult(items, key, now))

---------------------------------------------------------------------------
(* setItems / delete(keys): db.transaction(...)() *)

\* a function: a value serialize() cannot encode
FuncValue == [kind |-> "function", val |-> <<>>]

\* what serialize(value) throws for it
DataCloneError == [kind |-> "DataCloneError", val |-> <<>>]

\* what a statement throws that the engine cannot run
SQLiteError == [kind |-> "SQLiteError", val |-> <<>>]

\* serialize(value) returns
Encodable(v) == v.kind # "function"

\* a wrapper that runs the function without BEGIN and ROLLBACK
Transaction_NoRollback(before, run) == run.rows

\* db.transaction(fn)(): COMMIT when fn returns, ROLLBACK when it throws
Transaction(before, run) == IF run.threw THEN before ELSE run.rows

\* items.forEach(({key, value, ttlMs}) => this.set(key, value, ttlMs)): the
\* rows written when it ends, and whether it ended with a throw
RECURSIVE SetEach(_, _, _, _)
SetEach(rows, list, default, t) ==
    IF list = <<>> THEN [rows |-> rows, threw |-> FALSE]
    ELSE IF ~Encodable(Head(list).value) THEN [rows |-> rows, threw |-> TRUE]
    ELSE SetEach(SetRows(rows, Head(list).key, Head(list).value, Head(list).ttlMs,
                         default, t),
                 Tail(list), default, t)

SetItemsResult(rows, list, default, t) ==
    IF SetEach(rows, list, default, t).threw THEN DataCloneError ELSE Undefined

SetItemsRows(rows, list, default, t) ==
    Transaction(rows, SetEach(rows, list, default, t))

SetItems(list) ==
    Call("setItems", list, SetItemsResult(items, list, ttlMs, now),
         SetItemsRows(items, list, ttlMs, now))

\* keyOrKeys.forEach((key) => this.deleteStatement.run({key})) when the
\* engine fails to run statement number failAt (0: none fails)
DeleteEachUntil(rows, keys, failAt) ==
    IF failAt = 0 THEN [rows |-> DeleteEach(rows, keys), threw |-> FALSE]
    ELSE [rows |-> DeleteEach(rows, SubSeq(keys, 1, failAt - 1)), threw |-> TRUE]

\* delete(keys) with one or more keys, of which statement failAt fails
DeleteFailing(keys, failAt) ==
    Call("delete", ArrArg(keys), SQLiteError,
         Transaction(items, DeleteEachUntil(items, keys, failAt)))

---------------------------------------------------------------------------
(* addTag / deleteTaggedItems / getTaggedKeys *)

\* the error addTag throws
ITEM_NOT_EXISTS_ERROR_LABEL == [kind |-> "[ITEM_NOT_EXISTS]", val |-> <<>>]

TagRow(tag, key) == [tag |-> tag, item_key |-> key]

\* PRAGMA foreign_keys = OFF: no row of `tags` is checked against `items`
ForeignKeyHolds_Off(rows, key) == TRUE

\* PRAGMA foreign_keys = ON and item_key REFERENCES items: a row of `tags`
\* can be inserted for a key that has a row in `items`
ForeignKeyHolds(rows, key) == HasRow(rows, key)

\* INSERT OR IGNORE INTO tags (tag, item_key) VALUES ($tag, $item_key),
\* PRIMARY KEY (tag, item_key)
addTagStatement(tagRows, tag, key) == tagRows \cup {TagRow(tag, key)}

\* SELECT item_key AS key FROM tags WHERE tag = $tag
getTaggedKeysStatement(tagRows, tag) ==
    {tr.item_key : tr \in {x \in tagRows : x.tag = tag}}

\* DELETE FROM items WHERE key IN (SELECT item_key FROM tags WHERE tag = $tag)
deleteTaggedItemsStatement(rows, tagRows, tag) ==
    {r \in rows : r.key \notin getTaggedKeysStatement(tagRows, tag)}

\* addTag(key, tag): true when the statement inserted a row, false when the
\* row was there, [ITEM_NOT_EXISTS] when the foreign key fails
AddTagResult(rows, tagRows, key, tag) ==
    IF ~ForeignKeyHolds(rows, key) THEN ITEM_NOT_EXISTS_ERROR_LABEL
    ELSE BoolResult(TagRow(tag, key) \notin tagRows)

\* addTag(key, tag): the rows of `tags` it leaves
AddTagTags(rows, tagRows, key, tag) ==
    IF ~ForeignKeyHolds(rows, key) THEN tagRows
    ELSE addTagStatement(tagRows, tag, key)

AddTag(key, tag) ==
    CallTags("addTag", <<key, tag>>, AddTagResult(items, tags, key, tag), items,
             Undefined, AddTagTags(items, tags, key, tag))

\* deleteTaggedItems(tag): runs the statement
DeleteTaggedItems(tag) ==
    Call("deleteTaggedItems", tag, Undefined,
         deleteTaggedItemsStatement(items, tags, tag))

\* getTaggedKeys(tag): the keys the statement selects, in key order
TaggedKeys(rows, tagRows, tag) ==
    LET records == RowList({r \in rows : r.key \in getTaggedKeysStatement(tagRows, tag)})
    IN  ArrArg([i \in 1..Len(records) |-> records[i].key])

\* getTaggedKeys(tag): the keys of the tag, looked up with getKeys(keys)
GetTaggedKeysResult(rows, tagRows, tag, t) ==
    GetKeysResult(rows, TaggedKeys(rows, tagRows, tag), t)

GetTaggedKeys(tag) ==
    Call("getTaggedKeys", tag, GetTaggedKeysResult(items, tags, tag, now),
         GetKeysRows(items, TaggedKeys(items, tags, tag), now))

\* DELETE FROM tags WHERE tag = $tag AND item_key = $key
deleteTagStatement(tagRows, tag, key) ==
    {tr \in tagRows : ~(tr.tag = tag /\ tr.item_key = key)}

\* DELETE FROM tags WHERE item_key = $key
deleteAllTagsStatement(tagRows, key) == {tr \in tagRows : tr.item_key # key}

\* deleteTag(key, tag): runs the statement, true when it deleted a row
DeleteTag(key, tag) ==
    CallTags("deleteTag", <<key, tag>>, BoolResult(TagRow(tag, key) \in tags), items,
             Undefined, deleteTagStatement(tags, tag, key))

RECURSIVE DeleteTagEach(_, _, _)
DeleteTagEach(tagRows, key, tagList) ==
    IF tagList = <<>> THEN tagRows
    ELSE DeleteTagEach(deleteTagStatement(tagRows, Head(tagList), key), key, Tail(tagList))

\* deleteTags(key, tags?): the named tags of the key, all its tags when
\* `tags` is omitted
DeleteTags(key, arg) ==
    CallTags("deleteTags", <<key, arg>>, Undefined, items, Undefined,
             IF arg.type = "array" THEN DeleteTagEach(tags, key, arg.arr)
             ELSE deleteAllTagsStatement(tags, key))

---------------------------------------------------------------------------
(* db.transaction(...).immediate(): incr() statement by statement *)

\* the call failed: the write lock is held by another connection
Busy == [kind |-> "SQLITE_BUSY", val |-> <<>>]

\* a transaction that does not wait for the write lock
CanBeginImmediate_NoLock(lock, c) == TRUE

\* BEGIN IMMEDIATE takes the write lock at once, which no other
\* connection may hold
CanBeginImmediate(lock, c) == lock = NoCaller

\* caller c calls incr(KeyA): BEGIN IMMEDIATE
BeginImmediate(c) ==
    /\ tx.callers[c].pc = "idle"
    /\ Len(tx.callers[c].results) < MaxCalls
    /\ CanBeginImmediate(tx.lock, c)
    /\ tx' = [lock |-> c,
              callers |-> [tx.callers EXCEPT ![c] = [@ EXCEPT !.pc = "began", !.rows = items]]]
    /\ UNCHANGED <<items, ttlMs, now, last, maxExpiringItemsInDb, tags>>

\* caller c calls incr(KeyA) while another connection holds the write
\* lock: BEGIN IMMEDIATE fails and the call throws
BusyImmediate(c) ==
    /\ tx.callers[c].pc = "idle"
    /\ Len(tx.callers[c].results) < MaxCalls
    /\ ~CanBeginImmediate(tx.lock, c)
    /\ tx' = [tx EXCEPT !.callers[c].results = Append(@, Busy)]
    /\ UNCHANGED <<items, ttlMs, now, last, maxExpiringItemsInDb, tags>>

\* newValue = Number(this.get(key) ?? 0) + incrBy, inside the transaction
IncrRead(c) ==
    /\ tx.callers[c].pc = "began"
    /\ tx' = [tx EXCEPT !.callers[c] =
                 [@ EXCEPT !.pc = "read",
                           !.newValue = IncrNewValue(tx.callers[c].rows, KeyA, 1, now),
                           !.rows = GetRows(tx.callers[c].rows, KeyA, now)]]
    /\ UNCHANGED <<items, ttlMs, now, last, maxExpiringItemsInDb, tags>>

\* this.set(key, newValue, ttlMs), inside the transaction
IncrWrite(c) ==
    /\ tx.callers[c].pc = "read"
    /\ tx' = [tx EXCEPT !.callers[c] =
                 [@ EXCEPT !.pc = "wrote",
                           !.rows = IF tx.callers[c].newValue = NaN THEN @
                                    ELSE SetRows(@, KeyA, tx.callers[c].newValue,
                                                 UNDEFINED_TTL, ttlMs, now)]]
    /\ UNCHANGED <<items, ttlMs, now, last, maxExpiringItemsInDb, tags>>

\* COMMIT: the transaction's rows become the table, the lock is released
\* and incr() returns newValue
Commit(c) ==
    /\ tx.callers[c].pc = "wrote"
    /\ items' = tx.callers[c].rows
    /\ tx' = [lock |-> NoCaller,
              callers |-> [tx.callers EXCEPT ![c] =
                              [@ EXCEPT !.pc = "idle", !.rows = {},
                                        !.results = Append(@, tx.callers[c].newValue)]]]
    /\ tags' = CascadeDelete(tags, IF tx.callers[c].newValue = NaN THEN {} ELSE {KeyA})
    /\ UNCHANGED <<ttlMs, now, last, maxExpiringItemsInDb>>

---------------------------------------------------------------------------
(* get() statement by statement: SELECT, then the check of the stamp and
   DELETE, outside any transaction *)

\* caller c calls get(KeyA): this.getItemStatement.get({key}) reads the
\* record, if there is one
GetSelect(c) ==
    /\ tx.callers[c].pc = "idle"
    /\ tx' = [tx EXCEPT !.callers[c] =
                 [@ EXCEPT !.pc = "selected", !.rows = {r \in items : r.key = KeyA}]]
    /\ UNCHANGED <<items, ttlMs, now, last, maxExpiringItemsInDb, tags>>

\* what get() returns for the record it has read
GetRecordResult(records, t) ==
    IF records = {} THEN Undefined
    ELSE LET record == CHOOSE r \in records : TRUE
         IN  IF IsExpired(record.expires, t) THEN Undefined
             ELSE DecodeValue(record.value)

\* the table get() leaves: this.delete(key) runs DELETE FROM items WHERE
\* key = $key on the table as it is now when the stamp it has read is
\* before Date.now()
GetRecordRows(rows, records, key, t) ==
    IF records # {} /\ IsExpired((CHOOSE r \in records : TRUE).expires, t)
    THEN deleteStatement(rows, key)
    ELSE rows

\* caller c goes on in get(KeyA): the check of the stamp, the delete, the
\* return
GetReturn(c) ==
    /\ tx.callers[c].pc = "selected"
    /\ items' = GetRecordRows(items, tx.callers[c].rows, KeyA, now)
    /\ tags' = CascadeDelete(tags, KeysOf(items) \ KeysOf(items'))
    /\ last' = [op |-> "get", arg |-> KeyA,
                res |-> GetRecordResult(tx.callers[c].rows, now),
                before |-> KeysOf(items), old |-> Undefined]
    /\ tx' = [tx EXCEPT !.callers[c] = [@ EXCEPT !.pc = "idle", !.rows = {}]]
    /\ UNCHANGED <<ttlMs, now, maxExpiringItemsInDb>>

\* caller c, who is not inside a call, calls set(KeyA, value, ttlMs)
SetBy(c, v, ttl) ==
    /\ tx.callers[c].pc = "idle"
    /\ Set(KeyA, v, ttl)

---------------------------------------------------------------------------

TtlArgs == {UNDEFINED_TTL} \cup 0..MaxTtl

\* the arguments of getItems(), getValues(), getKeys() under Spec
ReadArgs ==
    {NoArg} \cup {StrArg(k) : k \in Keys} \cup {ArrArg(ks) : ks \in ArraysOf(Keys, MaxKeys)}

Init ==
    /\ items = {}
    /\ ttlMs \in {UNDEFINED_TTL, MaxTtl}
    /\ now = 1
    /\ last = [op |-> "new", arg |-> <<>>, res |-> Undefined, before |-> {},
               old |-> Undefined]
    /\ maxExpiringItemsInDb = UNDEFINED_MAX
    /\ tx = NoTx
    /\ tags = {}

Next ==
    \/ \E k \in Keys, v \in CoreValues, ttl \in TtlArgs : Set(k, v, ttl)
    \/ \E k \in Keys : Get(k)
    \/ \E k \in Keys : Delete(StrArg(k))
    \/ \E ks \in ArraysOf(Keys, MaxKeys) : Delete(ArrArg(ks))
    \/ Delete(NoArg)
    \/ Clear
    \/ DeleteExpired
    \/ GetCount
    \/ \E sweep \in {TRUE, FALSE} : GetCountValid(sweep)
    \/ \E k \in Keys : Has(k)
    \/ \E k \in Keys, ttl \in TtlArgs : SetTtl(k, ttl)
    \/ \E arg \in ReadArgs : GetItems(arg)
    \/ \E arg \in ReadArgs : GetKeys(arg)
    \/ GetRandomKey
    \/ GetRandomItem
    \/ GetRandomValue
    \/ Tick

Spec == Init /\ [][Next]_vars

---------------------------------------------------------------------------
(* Prefix scans over keys of the whole character range *)

\* U+0001, "%" (a LIKE wildcard), "a", U+10FFFF
PrefixChars == {MIN_UTF8_CHAR, 37, 97, MAX_UTF8_CHAR}

\* the non-empty strings of at most n characters
RECURSIVE StringsOf(_)
StringsOf(n) ==
    IF n = 0 THEN {}
    ELSE {<<c>> : c \in PrefixChars}
         \cup {Append(str, c) : str \in StringsOf(n - 1), c \in PrefixChars}

PrefixKeys == StringsOf(MaxKeyLen)

Prefixes == StringsOf(MaxKeyLen - 1)

InitPrefix ==
    /\ items = {}
    /\ ttlMs = UNDEFINED_TTL
    /\ now = 1
    /\ last = [op |-> "new", arg |-> <<>>, res |-> Undefined, before |-> {},
               old |-> Undefined]
    /\ maxExpiringItemsInDb = UNDEFINED_MAX
    /\ tx = NoTx
    /\ tags = {}

NextPrefix ==
    \/ \E k \in PrefixKeys, ttl \in {UNDEFINED_TTL, MaxTtl} :
          /\ Cardinality(items) < MaxRows
          /\ Set(k, NumValue, ttl)
    \/ \E p \in Prefixes : GetItems(StrArg(p))
    \/ \E p \in Prefixes : GetKeys(StrArg(p))
    \/ \E p \in Prefixes : GetValues(StrArg(p))
    \/ Tick

SpecPrefix == InitPrefix /\ [][NextPrefix]_vars

---------------------------------------------------------------------------
(* Values of every shape *)

NextShapes ==
    \/ \E k \in Keys, v \in Values, ttl \in {UNDEFINED_TTL, MaxTtl} : Set(k, v, ttl)
    \/ \E k \in Keys : Get(k)
    \/ \E k \in Keys : Has(k)
    \/ \E k \in Keys : Delete(StrArg(k))
    \/ \E ks \in ArraysOf(Keys, MaxKeys) : Delete(ArrArg(ks))
    \/ Clear
    \/ DeleteExpired
    \/ \E k \in Keys, ttl \in {0, MaxTtl} : SetTtl(k, ttl)
    \/ \E sweep \in {TRUE, FALSE} : GetCountValid(sweep)
    \/ GetItems(NoArg)
    \/ GetKeys(NoArg)
    \/ GetRandomValue
    \/ Tick

SpecShapes == InitPrefix /\ [][NextShapes]_vars

---------------------------------------------------------------------------
(* Counters: incr, decr and getSet on numbers, strings and other values *)

\* "2", "-1", " 1", "", "ab"
DigitStr  == [kind |-> "string", val |-> <<50>>]
SignedStr == [kind |-> "string", val |-> <<45, 49>>]
SpacedStr == [kind |-> "string", val |-> <<32, 49>>]
EmptyStr  == [kind |-> "string", val |-> <<>>]

\* the values callers store under SpecIncr
IncrValues == {NullValue, DigitStr, SignedStr, SpacedStr, EmptyStr, StrValue, ObjValue}

\* the steps callers count by: omitted, or -1..MaxBy
IncrBys == {<<>>} \cup {<<n>> : n \in (0 - 1)..MaxBy}

\* the number a row holds stays within -MaxNum..MaxNum
InRange(res) ==
    IF res = NaN THEN TRUE ELSE res.val[1] <= MaxNum /\ res.val[1] >= 0 - MaxNum

NextIncr ==
    \/ \E v \in IncrValues, ttl \in {UNDEFINED_TTL, MaxTtl} : Set(KeyA, v, ttl)
    \/ \E by \in IncrBys, ttl \in {UNDEFINED_TTL, MaxTtl} :
          /\ InRange(IncrNewValue(items, KeyA, ByOrDefault(by), now))
          /\ Incr(KeyA, by, ttl)
    \/ \E by \in IncrBys, ttl \in {UNDEFINED_TTL, MaxTtl} :
          /\ InRange(IncrNewValue(items, KeyA, DecrBy(by), now))
          /\ Decr(KeyA, by, ttl)
    \/ \E v \in {NullValue, NumValue, StrValue} : GetSet(KeyA, v, UNDEFINED_TTL)
    \/ Get(KeyA)
    \/ Delete(StrArg(KeyA))
    \/ Tick

SpecIncr == InitPrefix /\ [][NextIncr]_vars

---------------------------------------------------------------------------
(* Three keys: renaming keys and capping the rows that carry a stamp *)

KeyC == <<99>>

Keys3 == {KeyA, KeyB, KeyC}

\* the caps callers pass: omitted, or 0..MaxCap
CapArgs == {UNDEFINED_MAX} \cup 0..MaxCap

InitKeys ==
    /\ items = {}
    /\ ttlMs = UNDEFINED_TTL
    /\ now = 1
    /\ last = [op |-> "new", arg |-> <<>>, res |-> Undefined, before |-> {},
               old |-> Undefined]
    /\ maxExpiringItemsInDb \in {UNDEFINED_MAX, MaxCap}
    /\ tx = NoTx
    /\ tags = {}

NextKeys ==
    \/ \E k \in Keys3, v \in CoreValues, ttl \in {UNDEFINED_TTL, MaxTtl} : Set(k, v, ttl)
    \/ \E oldKey \in Keys3, newKey \in Keys3 : Rename(oldKey, newKey)
    \/ \E arg \in CapArgs : DeleteOldExpiringItems(arg)
    \/ \E k \in Keys3 : Delete(StrArg(k))
    \/ Tick

SpecKeys == InitKeys /\ [][NextKeys]_vars

---------------------------------------------------------------------------
(* Hashes: a Map stored at one key *)

FieldF == <<102>>
FieldG == <<103>>

Fields == {FieldF, FieldG}

NextHash ==
    \/ \E v \in CoreValues, ttl \in {UNDEFINED_TTL, MaxTtl} : Set(KeyA, v, ttl)
    \/ \E f \in Fields, v \in CoreValues, ttl \in {UNDEFINED_TTL, MaxTtl} :
          HSet(KeyA, f, v, ttl)
    \/ \E f \in Fields : HGet(KeyA, f)
    \/ Delete(StrArg(KeyA))
    \/ Tick

SpecHash == InitPrefix /\ [][NextHash]_vars

\* the values callers put into fields under SpecHashIncr
HashValues == {NullValue, DigitStr, StrValue}

\* the steps callers count fields by: omitted, or MaxBy
HashBys == {<<>>, <<MaxBy>>}

NextHashIncr ==
    \/ \E v \in {NullValue, StrValue} : Set(KeyA, v, MaxTtl)
    \/ \E f \in Fields, v \in HashValues : HSet(KeyA, f, v, UNDEFINED_TTL)
    \/ \E f \in Fields, by \in HashBys, ttl \in {UNDEFINED_TTL, MaxTtl} :
          /\ InRange(HIncrNewValue(items, KeyA, f, ByOrDefault(by), now))
          /\ HIncr(KeyA, f, by, ttl)
    \/ \E f \in Fields, by \in HashBys :
          /\ InRange(HIncrNewValue(items, KeyA, f, DecrBy(by), now))
          /\ HDecr(KeyA, f, by, UNDEFINED_TTL)
    \/ Delete(StrArg(KeyA))
    \/ Tick

SpecHashIncr == InitPrefix /\ [][NextHashIncr]_vars

---------------------------------------------------------------------------
(* Concurrent incr() calls on one key *)

NextConcurrent ==
    \/ \E c \in Callers : BeginImmediate(c)
    \/ \E c \in Callers : BusyImmediate(c)
    \/ \E c \in Callers : IncrRead(c)
    \/ \E c \in Callers : IncrWrite(c)
    \/ \E c \in Callers : Commit(c)

SpecConcurrent == InitPrefix /\ [][NextConcurrent]_vars

---------------------------------------------------------------------------
(* Tags: items of two keys that carry two tags *)

TagT == <<84>>
TagU == <<85>>

TagNames == {TagT, TagU}

NextTags ==
    \/ \E k \in Keys, ttl \in {UNDEFINED_TTL, MaxTtl} : Set(k, NullValue, ttl)
    \/ \E k \in Keys, tag \in TagNames : AddTag(k, tag)
    \/ \E tag \in TagNames : DeleteTaggedItems(tag)
    \/ \E tag \in TagNames : GetTaggedKeys(tag)
    \/ \E k \in Keys : Delete(StrArg(k))
    \/ \E k \in Keys : Get(k)
    \/ Tick

SpecTags == InitPrefix /\ [][NextTags]_vars

---------------------------------------------------------------------------
(* Batches: setItems and delete(keys) that fail partway *)

\* the items callers pass to setItems
BatchItems ==
    [key : Keys, value : {NumValue, FuncValue}, ttlMs : {UNDEFINED_TTL}]

NextBatch ==
    \/ \E k \in Keys : Set(k, NullValue, UNDEFINED_TTL)
    \/ \E list \in ArraysOf(BatchItems, MaxKeys) : SetItems(list)
    \/ \E keys \in ArraysOf(Keys, MaxKeys) : Delete(ArrArg(keys))
    \/ \E keys \in ArraysOf(Keys, MaxKeys) \ {<<>>}, failAt \in 1..MaxKeys :
          /\ failAt <= Len(keys)
          /\ DeleteFailing(keys, failAt)
    \/ \E k \in Keys : AddTag(k, TagT)

SpecBatch == InitPrefix /\ [][NextBatch]_vars

---------------------------------------------------------------------------
(* Lists: an Array stored at one key *)

\* the elements callers push
Elems == {1, 2}

\* the values one push takes: none to MaxPush elements
PushArgs == ArraysOf(Elems, MaxPush)

\* the counts callers pop with: omitted, or -1..MaxLen
PopCounts == {NoCount} \cup {<<n>> : n \in (0 - 1)..MaxLen}

\* the indexes callers look up: one beyond the longest list on either side
Indexes == (0 - (MaxLen + 1))..MaxLen

\* the values callers store under SpecList that are no Array
NoArrays == {NullValue, NumValue, StrValue, MapValue}

\* a push that leaves a list of at most MaxLen elements
FitsList(res) == IF res.kind = "count" THEN res.val <= MaxLen ELSE TRUE

NextList ==
    \/ \E v \in NoArrays : Set(KeyA, v, UNDEFINED_TTL)
    \/ \E values \in PushArgs :
          /\ FitsList(LPushResult(items, KeyA, values, now))
          /\ LPush(KeyA, values)
    \/ \E values \in PushArgs :
          /\ FitsList(RPushResult(items, KeyA, values, now))
          /\ RPush(KeyA, values)
    \/ \E count \in PopCounts : LPop(KeyA, count)
    \/ \E count \in PopCounts : RPop(KeyA, count)
    \/ \E index \in Indexes : LIndex(KeyA, index)
    \/ AddTag(KeyA, TagT)
    \/ Delete(StrArg(KeyA))
    \/ Tick

SpecList == Init /\ [][NextList]_vars

---------------------------------------------------------------------------
(* A store file that is opened again: three keys, sweep and cap at
   construction *)

NextReopen ==
    \/ \E k \in Keys3, ttl \in {UNDEFINED_TTL, MaxTtl} : Set(k, NullValue, ttl)
    \/ \E ttl \in {UNDEFINED_TTL, MaxTtl}, cap \in CapArgs : Construct(ttl, cap)
    \/ \E k \in Keys3 : AddTag(k, TagT)
    \/ Tick

SpecReopen == InitKeys /\ [][NextReopen]_vars

---------------------------------------------------------------------------
(* Tagged items under every call that deletes or rewrites rows *)

\* the arguments of deleteTags: no tags, or an array of tags
TagArgs == {NoArg, ArrArg(<<TagT>>), ArrArg(<<TagT, TagU>>)}

NextTagged ==
    \/ \E k \in Keys, ttl \in {UNDEFINED_TTL, MaxTtl} : Set(k, NullValue, ttl)
    \/ \E k \in Keys, tag \in TagNames : AddTag(k, tag)
    \/ \E k \in Keys, tag \in TagNames : DeleteTag(k, tag)
    \/ \E k \in Keys, arg \in TagArgs : DeleteTags(k, arg)
    \/ \E tag \in TagNames : DeleteTaggedItems(tag)
    \/ \E k \in Keys : Delete(StrArg(k))
    \/ \E ks \in {<<KeyB>>, <<KeyA, KeyB>>} : Delete(ArrArg(ks))
    \/ Clear
    \/ DeleteExpired
    \/ \E k \in Keys : Get(k)
    \/ \E arg \in CapArgs : DeleteOldExpiringItems(arg)
    \/ \E oldKey \in Keys, newKey \in Keys : Rename(oldKey, newKey)
    \/ /\ IncrNewValue(items, KeyA, 1, now) = Num(1)
       /\ Incr(KeyA, <<>>, UNDEFINED_TTL)
    \/ HSet(KeyA, FieldF, NullValue, UNDEFINED_TTL)
    \/ /\ LPushResult(items, KeyA, <<1>>, now) \in {CountResult(1), NO_ARRAY_ERROR_LABEL}
       /\ LPush(KeyA, <<1>>)
    \/ Tick

SpecTagged == InitKeys /\ [][NextTagged]_vars

---------------------------------------------------------------------------
(* Compound calls on one key whose item expires *)

\* the longest string append() leaves under SpecLapsed
MaxStr == 3

NextLapsed ==
    \/ \E v \in {NumValue, StrValue}, ttl \in {UNDEFINED_TTL, MaxTtl} : Set(KeyA, v, ttl)
    \/ \E by \in {<<>>, <<MaxBy>>} :
          /\ InRange(IncrNewValue(items, KeyA, ByOrDefault(by), now))
          /\ Incr(KeyA, by, UNDEFINED_TTL)
    \/ /\ InRange(IncrNewValue(items, KeyA, DecrBy(<<>>), now))
       /\ Decr(KeyA, <<>>, UNDEFINED_TTL)
    \/ \E chars \in {<<97>>, <<49, 50>>} :
          /\ Len(AppendNewValue(items, KeyA, Str(chars), now).val) <= MaxStr
          /\ append(KeyA, Str(chars), UNDEFINED_TTL)
    \/ GetSet(KeyA, StrValue, UNDEFINED_TTL)
    \/ \E f \in Fields : HSet(KeyA, f, NumValue, MaxTtl)
    \/ /\ InRange(HIncrNewValue(items, KeyA, FieldF, MaxBy, now))
       /\ HIncr(KeyA, FieldF, <<MaxBy>>, UNDEFINED_TTL)
    \/ \E values \in PushArgs :
          /\ FitsList(LPushResult(items, KeyA, values, now))
          /\ LPush(KeyA, values)
    \/ \E values \in PushArgs :
          /\ FitsList(RPushResult(items, KeyA, values, now))
          /\ RPush(KeyA, values)
    \/ Tick

SpecLapsed == Init /\ [][NextLapsed]_vars

---------------------------------------------------------------------------
(* Two processes on one store file: get() in one, set() in the other *)

NextLazy ==
    \/ \E c \in Callers : GetSelect(c)
    \/ \E c \in Callers : GetReturn(c)
    \/ \E c \in Callers, v \in CoreValues, ttl \in {UNDEFINED_TTL, MaxTtl} : SetBy(c, v, ttl)
    \/ Tick

SpecLazy == InitPrefix /\ [][NextLazy]_vars

---------------------------------------------------------------------------
(* Calls that rewrite the value of one key that carries a stamp *)

NextRestamp ==
    \/ \E v \in {NumValue, StrValue}, ttl \in {UNDEFINED_TTL, MaxTtl + 1} : Set(KeyA, v, ttl)
    \/ /\ InRange(IncrNewValue(items, KeyA, 1, now))
       /\ Incr(KeyA, <<>>, UNDEFINED_TTL)
    \/ /\ InRange(IncrNewValue(items, KeyA, DecrBy(<<>>), now))
       /\ Decr(KeyA, <<>>, UNDEFINED_TTL)
    \/ /\ Len(AppendNewValue(items, KeyA, Str(<<97>>), now).val) <= MaxStr
       /\ append(KeyA, Str(<<97>>), UNDEFINED_TTL)
    \/ GetSet(KeyA, NullValue, UNDEFINED_TTL)
    \/ \E ttl \in {UNDEFINED_TTL, MaxTtl + 1} : HSet(KeyA, FieldF, NumValue, ttl)
    \/ \E fields \in {<<>>, <<<<FieldG, NumValue>>>>} : HmSet(KeyA, fields, UNDEFINED_TTL)
    \/ /\ InRange(HIncrNewValue(items, KeyA, FieldF, 1, now))
       /\ HIncr(KeyA, FieldF, <<>>, UNDEFINED_TTL)
    \/ \E f \in Fields : HDelete(KeyA, f)
    \/ /\ FitsList(LPushResult(items, KeyA, <<1>>, now))
       /\ LPush(KeyA, <<1>>)
    \/ /\ FitsList(RPushResult(items, KeyA, <<2>>, now))
       /\ RPush(KeyA, <<2>>)
    \/ \E count \in {NoCount, <<1>>} : LPop(KeyA, count)
    \/ \E count \in {NoCount, <<1>>} : RPop(KeyA, count)
    \/ Tick

SpecRestamp == Init /\ [][NextRestamp]_vars

---------------------------------------------------------------------------
(* Reads of every kind over two keys that hold a map or a list *)

\* the values callers store under SpecReads
ReadValues == {MapOf(<<<<FieldF, NumValue>>>>), ArrOf(<<1>>)}

NextReads ==
    \/ \E k \in Keys, v \in ReadValues, ttl \in {UNDEFINED_TTL, MaxTtl} : Set(k, v, ttl)
    \/ \E k \in Keys : Get(k)
    \/ \E k \in Keys : GetItem(k)
    \/ \E k \in Keys : Has(k)
    \/ \E k \in Keys : GetTtl(k)
    \/ \E arg \in ReadArgs : GetItems(arg)
    \/ \E arg \in ReadArgs : GetValues(arg)
    \/ \E arg \in ReadArgs : GetKeys(arg)
    \/ GetCount
    \/ GetCountValid(FALSE)
    \/ GetRandomKey
    \/ GetRandomItem
    \/ GetRandomValue
    \/ \E k \in Keys : HGet(k, FieldF)
    \/ \E k \in Keys, fields \in {NoArg, ArrArg(<<FieldF, FieldG>>)} : HmGet(k, fields)
    \/ \E k \in Keys : HGetFields(k)
    \/ \E k \in Keys, index \in {0, 0 - 1} : LIndex(k, index)
    \/ Tick

SpecReads == InitPrefix /\ [][NextReads]_vars

---------------------------------------------------------------------------
(* Properties *)

\* the expiry stamp of the row of `key` has passed at time t
StampPassed(rows, key, t) ==
    /\ HasRow(rows, key)
    /\ RowOf(rows, key).expires # NULL
    /\ RowOf(rows, key).expires < t

\* the rows whose expiry stamp has passed at time t
ExpiredRows(rows, t) == {r \in rows : r.expires # NULL /\ r.expires < t}

\* the call just made deletes `key`, writes it or re-stamps it: set(key),
\* setTtl(key), delete(key), delete([.. key ..]), or a delete of all rows
\* (delete(), delete([]), clear())
ChangesKey(key) ==
    \/ last'.op \in {"set", "setTtl"} /\ last'.arg[1] = key
    \/ last'.op = "clear"
    \/ /\ last'.op = "delete"
       /\ \/ last'.arg.type = "string" /\ last'.arg.str = key
          \/ last'.arg.type = "array" /\ key \in Range(last'.arg.arr)
          \/ last'.arg.type = "array" /\ last'.arg.arr = <<>>
          \/ last'.arg.type = "undefined"

\* C1: get(k) returns the value V of the most recent set(k, V), for V of
\* every supported shape: right after set(k, V) a get(k) returns V, and
\* from then on no call that does not delete, overwrite or re-stamp k
\* changes what get(k) returns, until the expiry stamp of k has passed.
C1_SetGetRoundTrip ==
    [][\A k \in Keys :
          /\ (last'.op = "set" /\ last'.arg[1] = k)
                => GetResult(items', k, now') = last'.arg[2]
          /\ ~ChangesKey(k)
                => \/ GetResult(items', k, now') = GetResult(items, k, now)
                   \/ StampPassed(items, k, now')]_vars

\* get(k) returned a stored Map while the other key held a null
C1_Witness ==
    /\ last.op = "get"
    /\ last.res = MapValue
    /\ \E r \in items : r.key # last.arg /\ DecodeValue(r.value) = NullValue

\* C2: get(k) on a row whose expiry stamp has passed returns undefined and
\* deletes the row, so that the row count is one lower; otherwise it
\* deletes nothing and, when k has a row, returns the stored value.
C2_GetExpired ==
    [][\A k \in Keys :
          (last'.op = "get" /\ last'.arg = k) =>
             IF StampPassed(items, k, now)
             THEN /\ last'.res = Undefined
                  /\ ~HasRow(items', k)
                  /\ countStatement(items') = countStatement(items) - 1
             ELSE /\ items' = items
                  /\ HasRow(items, k) =>
                        last'.res = deserialize(RowOf(items, k).value)]_vars

\* a get(k) has just deleted the expired row of k and left the other row
C2_Witness ==
    /\ last.op = "get"
    /\ last.res = Undefined
    /\ last.arg \in last.before
    /\ ~HasRow(items, last.arg)
    /\ Cardinality(items) = 1

\* no read shows key k: get and has find nothing, a scan of all items or
\* all keys does not list it, a random pick cannot be it
Hidden(rows, k, t) ==
    /\ GetResult(rows, k, t) = Undefined
    /\ HasResult(rows, k, t) = BoolResult(FALSE)
    /\ LET got == GetKeysResult(rows, NoArg, t)
       IN  got # Undefined => k \notin Range(got.val)
    /\ LET got == GetItemsResult(rows, NoArg, t)
       IN  got # Undefined => \A i \in 1..Len(got.val) : got.val[i].key # k
    /\ \A r \in RandomRows(rows, t) : r.key # k

\* C3: once the expiry stamp of the item at k has passed, no read returns
\* k or its value again unless a new value is written to k: whatever call
\* other than set(k) comes next, k stays hidden from the reads.
C3_ExpiredStaysHidden ==
    [][\A k \in Keys :
          (StampPassed(items, k, now) /\ ~(last'.op = "set" /\ last'.arg[1] = k))
             => Hidden(items', k, now')]_vars

\* C4: getCount() counts every row, the expired ones included;
\* getCountValid() without sweep counts no expired row and every row
\* without a stamp, and deletes nothing.
C4_CountKeepsExpired ==
    [][/\ last'.op = "getCount" =>
             /\ items' = items
             /\ last'.res = CountResult(Cardinality(ExpiredRows(items, now))
                                        + Cardinality(items \ ExpiredRows(items, now)))
       /\ (last'.op = "getCountValid" /\ last'.arg # TRUE) =>
             /\ items' = items
             /\ last'.res.val <= Cardinality(items \ ExpiredRows(items, now))
             /\ last'.res.val >= Cardinality({r \in items : r.expires = NULL})]_vars

\* getCountValid() has just left an expired row in the table without counting it
C4_Witness ==
    /\ last.op = "getCountValid"
    /\ last.arg = FALSE
    /\ ExpiredRows(items, now) # {}
    /\ last.res.val < countStatement(items)
    /\ last.res.val > 0

\* C5: getCountValid(true) returns the number of rows that remain (what
\* getCount() returns right afterwards), and no remaining row is expired.
C5_SweepThenCount ==
    (last.op = "getCountValid" /\ last.arg = TRUE) =>
        /\ last.res = CountResult(countStatement(items))
        /\ ExpiredRows(items, now) = {}

\* getCountValid(true) has just swept a row and counted the one that remains
C5_Witness ==
    /\ last.op = "getCountValid"
    /\ last.arg = TRUE
    /\ last.before # KeysOf(items)
    /\ last.res = CountResult(1)

\* the expiry stamp set(k, v, ttl) is to give: now + ttl for ttl > 0, none
\* for ttl = 0, the store's default for an omitted ttl
StampFor(ttl) ==
    IF ttl # UNDEFINED_TTL /\ ttl > 0 THEN now + ttl
    ELSE IF ttl = 0 THEN NULL
    ELSE IF ttlMs # UNDEFINED_TTL /\ ttlMs > 0 THEN now + ttlMs
    ELSE NULL

\* C6: after set(k, v, ttl) the row of k carries expires = now + ttl when
\* ttl > 0, no expiry when ttl = 0 (whatever the default), and for an
\* omitted ttl now + default TTL, or no expiry without a default.
C6_SetStampsExpiry ==
    last.op = "set" =>
        /\ HasRow(items, last.arg[1])
        /\ RowOf(items, last.arg[1]).expires = StampFor(last.arg[3])

\* set(k, v, 0) has just stored a row without expiry in a store with a default TTL
C6_Witness ==
    /\ last.op = "set"
    /\ last.arg[3] = 0
    /\ ttlMs > 0
    /\ RowOf(items, last.arg[1]).expires = NULL

\* C7: a key never has more than one row, and set on a key that has a row
\* replaces its value and its expiry stamp and leaves the number of rows
\* as it was.
C7_SetReplaces ==
    [][/\ \A k \in Keys : Cardinality({r \in items' : r.key = k}) <= 1
       /\ (last'.op = "set" /\ HasRow(items, last'.arg[1])) =>
             /\ Cardinality(items') = Cardinality(items)
             /\ {r \in items' : r.key = last'.arg[1]}
                   = {[key |-> last'.arg[1], value |-> serialize(last'.arg[2]),
                       expires |-> StampFor(last'.arg[3])]}]_vars

\* set(k, v) without TTL has just overwritten the row of k at a later time,
\* next to the row of the other key
C7_Witness ==
    /\ last.op = "set"
    /\ last.arg[1] \in last.before
    /\ last.arg[3] = UNDEFINED_TTL
    /\ RowOf(items, last.arg[1]).expires = NULL
    /\ now > 1
    /\ Cardinality(items) = 2

\* C8: delete(key) removes exactly the row of key, delete(keys) exactly the
\* rows whose keys are in the array, for every array, and delete() all rows.
C8_DeleteRemovesNamed ==
    [][last'.op = "delete" =>
          items' = CASE last'.arg.type = "string" ->
                          {r \in items : r.key # last'.arg.str}
                     [] last'.arg.type = "array" ->
                          {r \in items : r.key \notin Range(last'.arg.arr)}
                     [] last'.arg.type = "undefined" -> {}]_vars

\* C9: getItems(P), getKeys(P) and getValues(P) with a non-empty prefix P
\* return exactly the non-expired items whose key starts with P.
C9_PrefixScanExact ==
    (last.op \in {"getItems", "getKeys", "getValues"} /\ last.arg.type = "string"
        /\ last.arg.str # <<>>) =>
        LET expected == {r \in items \ ExpiredRows(items, now) :
                            StartsWith(r.key, last.arg.str)}
            returned == IF last.res = Undefined THEN <<>> ELSE last.res.val
        IN  /\ Len(returned) = Cardinality(expected)
            /\ last.op = "getItems" =>
                  {returned[i].key : i \in 1..Len(returned)} = KeysOf(expected)
            /\ last.op = "getKeys" => Range(returned) = KeysOf(expected)
            /\ last.op = "getValues" =>
                  Range(returned) = {deserialize(r.value) : r \in expected}

\* C10: getItems(keys) returns one entry per requested key, in request
\* order, with value undefined for a key that has no item; getKeys(keys)
\* returns the requested keys that have an item, in request order.
C10_ArrayLookup ==
    (last.op \in {"getItems", "getKeys"} /\ last.arg.type = "array"
        /\ last.arg.arr # <<>>) =>
        LET keys     == last.arg.arr
            returned == IF last.res = Undefined THEN <<>> ELSE last.res.val
            Exists(k) == HasRow(items, k)
        IN  /\ last.op = "getItems" =>
                  /\ Len(returned) = Len(keys)
                  /\ \A i \in 1..Len(returned) :
                        /\ returned[i].key = keys[i]
                        /\ ~Exists(keys[i]) => returned[i].value = Undefined
            /\ last.op = "getKeys" => returned = SelectSeq(keys, Exists)

\* the value stored at key that a read at time t is to return: the row's
\* value unless the row is missing or its stamp has passed
Stored(rows, key, t) ==
    IF HasRow(rows, key) /\ ~StampPassed(rows, key, t)
    THEN deserialize(RowOf(rows, key).value)
    ELSE Undefined

\* the number a counter starts from: 0 for a missing or null value, the
\* number itself, the number a string reads as; <<>> when there is none
StartOf(old) ==
    CASE old \in {Undefined, NullValue, EmptyStr} -> <<0>>
      [] old.kind = "number" -> old.val
      [] old = DigitStr  -> <<2>>
      [] old = SignedStr -> <<0 - 1>>
      [] old = SpacedStr -> <<1>>
      [] OTHER -> <<>>

\* C11: incr(k, by) returns and stores the old number plus by, decr(k, by)
\* the old number minus by; a missing value counts as 0, an omitted by as
\* 1, a stored numeric string as its number.
C11_IncrDecrRunningSum ==
    [][last'.op \in {"incr", "decr"} =>
          LET key   == last'.arg[1]
              by    == IF last'.arg[2] = <<>> THEN 1 ELSE last'.arg[2][1]
              start == StartOf(Stored(items, key, now))
              sum   == IF last'.op = "incr" THEN start[1] + by ELSE start[1] - by
          IN  start # <<>> =>
                 /\ last'.res = Num(sum)
                 /\ Stored(items', key, now') = Num(sum)]_vars

\* decr(k) without a step has just counted the stored string "-1" down to -2
C11_Witness ==
    /\ last.op = "decr"
    /\ last.arg[2] = <<>>
    /\ last.old = SignedStr
    /\ last.res = Num(0 - 2)
    /\ Stored(items, KeyA, now) = Num(0 - 2)

\* C12: incr or decr on a stored value that does not convert to a number
\* returns NaN and leaves the value and its expiry stamp as they were.
C12_IncrNaNKeepsValue ==
    [][(last'.op \in {"incr", "decr"}
          /\ StartOf(Stored(items, last'.arg[1], now)) = <<>>) =>
             /\ last'.res = NaN
             /\ items' = items]_vars

\* incr has just returned NaN for the stored string "ab", which carries a stamp
C12_Witness ==
    /\ last.op = "incr"
    /\ last.res = NaN
    /\ last.old = StrValue
    /\ \E r \in items : r.value = serialize(StrValue) /\ r.expires # NULL

\* C14: getSet(k, v, ttl) returns what get(k) would have returned right
\* before (undefined for a missing key), and afterwards get(k) returns v.
C14_GetSetReturnsOld ==
    [][last'.op = "getSet" =>
          /\ last'.res = Stored(items, last'.arg[1], now)
          /\ Stored(items', last'.arg[1], now') = last'.arg[2]
          /\ GetResult(items', last'.arg[1], now') = last'.arg[2]]_vars

\* getSet has just replaced the stored string "ab" by null and returned "ab"
C14_Witness ==
    /\ last.op = "getSet"
    /\ last.res = StrValue
    /\ last.arg[2] = NullValue
    /\ Stored(items, KeyA, now) = NullValue

\* C15: whenever rename(oldKey, newKey) returns true, for every pair of
\* keys, newKey holds the value and the stamp oldKey held, what newKey
\* held before is gone, and the rows of all other keys are as they were.
C15_RenameMoves ==
    [][(last'.op = "rename" /\ last'.res = BoolResult(TRUE)) =>
          LET oldKey == last'.arg[1]
              newKey == last'.arg[2]
          IN  /\ {r \in items' : r.key = newKey}
                    = {[RowOf(items, oldKey) EXCEPT !.key = newKey]}
              /\ {r \in items' : r.key \notin {oldKey, newKey}}
                    = {r \in items : r.key \notin {oldKey, newKey}}]_vars

\* C16: rename(oldKey, newKey) returns false exactly when oldKey has no
\* non-expired item, and then the row of newKey and the rows of all
\* non-expired items are as they were: nothing goes but an expired row of
\* oldKey.
C16_RenameFalseKeeps ==
    [][last'.op = "rename" =>
          LET oldKey == last'.arg[1]
              newKey == last'.arg[2]
          IN  /\ (last'.res = BoolResult(FALSE))
                    <=> ~(HasRow(items, oldKey) /\ ~StampPassed(items, oldKey, now))
              /\ last'.res = BoolResult(FALSE) =>
                    /\ items' \subseteq items
                    /\ \A r \in items \ items' :
                          r.key = oldKey /\ r.expires # NULL /\ r.expires < now
                    /\ newKey # oldKey =>
                          {r \in items' : r.key = newKey} = {r \in items : r.key = newKey}]_vars

\* rename has just returned false for an expired oldKey, and newKey kept its row
C16_Witness ==
    /\ last.op = "rename"
    /\ last.res = BoolResult(FALSE)
    /\ last.arg[1] \in last.before
    /\ ~HasRow(items, last.arg[1])
    /\ HasRow(items, last.arg[2])
    /\ RowOf(items, last.arg[2]).expires # NULL

Expiring(rows) == {r \in rows : r.expires # NULL}

Min(a, b) == IF a <= b THEN a ELSE b

\* C18: after deleteOldExpiringItems(n), n from the argument or else the
\* store's maxExpiringItemsInDb, min(previous number, n) rows carry a
\* stamp, no evicted row had a later stamp than a surviving row with a
\* stamp, and no row without a stamp is removed; without any n nothing
\* changes.
C18_CapsExpiringRows ==
    [][last'.op = "deleteOldExpiringItems" =>
          LET n == IF last'.arg # UNDEFINED_MAX THEN last'.arg ELSE maxExpiringItemsInDb
          IN  /\ items' \subseteq items
              /\ n = UNDEFINED_MAX => items' = items
              /\ n # UNDEFINED_MAX =>
                    Cardinality(Expiring(items')) = Min(Cardinality(Expiring(items)), n)
              /\ \A e \in items \ items', r \in Expiring(items') : e.expires <= r.expires
              /\ \A r \in items : r.expires = NULL => r \in items']_vars

\* deleteOldExpiringItems() under the store's cap has just evicted one of
\* two stamped rows and kept the row without a stamp
C18_Witness ==
    /\ last.op = "deleteOldExpiringItems"
    /\ last.arg = UNDEFINED_MAX
    /\ maxExpiringItemsInDb # UNDEFINED_MAX
    /\ Cardinality(last.before) = Cardinality(items) + 1
    /\ Expiring(items) # {}
    /\ items # Expiring(items)

\* C19: has(k) returns true exactly when k has a row without a stamp or
\* with a stamp that has not passed, which is when get(k) keeps the row;
\* a has(k) that finds an expired row returns false and deletes that row,
\* and any other has(k) changes nothing.
C19_HasDecidesLikeGet ==
    [][last'.op = "has" =>
          LET key == last'.arg
          IN  /\ last'.res = BoolResult(HasRow(items, key) /\ ~StampPassed(items, key, now))
              /\ (last'.res = BoolResult(TRUE))
                    <=> (HasRow(items, key) /\ GetRows(items, key, now) = items)
              /\ IF StampPassed(items, key, now)
                 THEN items' = items \ {RowOf(items, key)}
                 ELSE items' = items]_vars

\* has has just returned false for an expired row and deleted it, next to another row
C19_Witness ==
    /\ last.op = "has"
    /\ last.res = BoolResult(FALSE)
    /\ last.arg \in last.before
    /\ ~HasRow(items, last.arg)
    /\ items # {}

\* the values field has in a list of entries: one, or none
Lookup(entries, field) == {e[2] : e \in {d \in Range(entries) : d[1] = field}}

\* the entries of the map stored at key: none without a map
EntriesAt(rows, key, t) ==
    IF Stored(rows, key, t).kind = "map" THEN Stored(rows, key, t).val ELSE <<>>

\* C20: hSet(k, f, v) on a missing key stores a new map with the one field
\* f; on a missing key or a map it returns true exactly when f was not in
\* the map, and afterwards hGet(k, f) returns v and every other field has
\* the value it had; hGet on a missing key returns undefined.
C20_HSetHGet ==
    [][/\ (last'.op = "hSet"
             /\ Stored(items, last'.arg[1], now).kind \in {"undefined", "map"}) =>
             LET key     == last'.arg[1]
                 field   == last'.arg[2]
                 entries == EntriesAt(items, key, now)
                 after   == EntriesAt(items', key, now')
             IN  /\ last'.res = BoolResult(Lookup(entries, field) = {})
                 /\ Stored(items', key, now').kind = "map"
                 /\ Lookup(after, field) = {last'.arg[3]}
                 /\ HGetResult(items', key, field, now') = last'.arg[3]
                 /\ \A g \in Fields \ {field} : Lookup(after, g) = Lookup(entries, g)
                 /\ Len(after) = Cardinality({e[1] : e \in Range(after)})
                 /\ Stored(items, key, now) = Undefined =>
                       after = <<(<<field, last'.arg[3]>>)>>
       /\ (last'.op = "hGet" /\ Stored(items, last'.arg[1], now) = Undefined) =>
             last'.res = Undefined]_vars

\* hSet has just replaced the value of a field in a map of two fields and
\* returned false
C20_Witness ==
    /\ last.op = "hSet"
    /\ last.res = BoolResult(FALSE)
    /\ last.old.kind = "map"
    /\ MapGet(last.old.val, last.arg[2]) # last.arg[3]
    /\ Len(EntriesAt(items, KeyA, now)) = 2

\* the incr() calls that have returned: <<caller, number of its call>>
ReturnedCalls ==
    {call \in Callers \X (1..MaxCalls) :
        /\ call[2] <= Len(tx.callers[call[1]].results)
        /\ tx.callers[call[1]].results[call[2]] # Busy}

ResultOf(call) == tx.callers[call[1]].results[call[2]]

FieldStart(old, field) ==
    IF old.kind \in {"undefined", "null"} THEN <<0>>
    ELSE IF old.kind # "map" THEN <<>>
    ELSE IF Lookup(old.val, field) = {} THEN <<0>>
    ELSE StartOf(CHOOSE v \in Lookup(old.val, field) : TRUE)

ElementsAt(rows, key, t) ==
    IF Stored(rows, key, t).kind = "array" THEN Stored(rows, key, t).val ELSE <<>>

RECURSIVE SinglePops(_, _, _)
SinglePops(elements, side, n) ==
    IF n = 0 \/ elements = <<>> THEN [taken |-> <<>>, rest |-> elements]
    ELSE LET pop  == PopOf(ArrOf(elements), side, NoCount)
             more == SinglePops(pop.kept.val, side, n - 1)
         IN  [taken |-> <<pop.result.val[1]>> \o more.taken, rest |-> more.rest]

\* C23: on a list, lPop(k, n) with n > 0 returns and removes the first
\* min(n, length) elements in list order and rPop(k, n) the last
\* min(n, length) elements, the last one first; elements, order and
\* remaining list are those of n single pops (lPop(k), rPop(k)) one after
\* another; a pop without count or with n > 0 on an empty or missing list
\* returns undefined and leaves the list as it was.
C23_PopCount ==
    [][(last'.op \in {"lPop", "rPop"}
          /\ Stored(items, last'.arg[1], now).kind \in {"undefined", "array"}
          /\ (last'.arg[2] = NoCount \/ last'.arg[2][1] > 0)) =>
             LET key   == last'.arg[1]
                 count == last'.arg[2]
                 side  == IF last'.op = "lPop" THEN "l" ELSE "r"
                 old   == ElementsAt(items, key, now)
                 after == ElementsAt(items', key, now')
                 len   == Len(old)
             IN  IF old = <<>>
                 THEN /\ last'.res = Undefined
                      /\ after = <<>>
                      /\ Stored(items', key, now').kind = Stored(items, key, now).kind
                 ELSE IF count = NoCount
                 THEN /\ last'.res = Num(IF side = "l" THEN old[1] ELSE old[len])
                      /\ after = (IF side = "l" THEN SubSeq(old, 2, len)
                                  ELSE SubSeq(old, 1, len - 1))
                 ELSE LET m == Min(count[1], len)
                      IN  /\ last'.res.kind = "array"
                          /\ Len(last'.res.val) = m
                          /\ \A i \in 1..m :
                                last'.res.val[i] = (IF side = "l" THEN old[i]
                                                    ELSE old[len + 1 - i])
                          /\ after = (IF side = "l" THEN SubSeq(old, m + 1, len)
                                      ELSE SubSeq(old, 1, len - m))
                          /\ last'.res.val = SinglePops(old, side, count[1]).taken
                          /\ after = SinglePops(old, side, count[1]).rest]_vars

\* rPop with count 2 has just taken 2, 1 off the end of a list of three
\* elements and left the first one
C23_Witness ==
    /\ last.op = "rPop"
    /\ last.arg[2] = <<2>>
    /\ last.old.kind = "array"
    /\ Len(last.old.val) = 3
    /\ last.res = ArrOf(<<2, 1>>)
    /\ ElementsAt(items, KeyA, now) = <<last.old.val[1]>>

\* C24: lPop(k, n) and rPop(k, n) with n <= 0 raise [INVALID_COUNT_ERROR]
\* whatever the key holds: nothing, an empty list or a list with elements.
C24_InvalidCountAlways ==
    [][(last'.op \in {"lPop", "rPop"}
          /\ last'.arg[2] # NoCount
          /\ Stored(items, last'.arg[1], now).kind \in {"undefined", "array"}) =>
             (last'.arg[2][1] <= 0 => last'.res = INVALID_COUNT_ERROR_LABEL)]_vars

\* C25: lPush, rPush, lPop, rPop and lIndex on a key whose stored value is
\* no array (a string, a number, a map, ...) raise [NO_ARRAY_ERROR].
C25_NoArrayRaises ==
    [][(last'.op \in {"lPush", "rPush", "lPop", "rPop", "lIndex"}
          /\ Stored(items, last'.arg[1], now).kind \notin {"undefined", "array"}) =>
             last'.res = NO_ARRAY_ERROR_LABEL]_vars

\* C27: lIndex(k, i) on a list of length n returns element i (counted from
\* 0) for 0 <= i < n, element n + i for -n <= i < 0, and undefined for
\* every other index and for a missing key; the stored list, its stamp
\* included, is never changed.
C27_LIndexWraps ==
    [][(last'.op = "lIndex"
          /\ Stored(items, last'.arg[1], now).kind \in {"undefined", "array"}) =>
             LET key   == last'.arg[1]
                 index == last'.arg[2]
                 list  == ElementsAt(items, key, now)
                 n     == Len(list)
             IN  /\ (0 <= index /\ index < n) => last'.res = Num(list[index + 1])
                 /\ (0 - n <= index /\ index < 0) => last'.res = Num(list[n + index + 1])
                 /\ (index >= n \/ index < 0 - n) => last'.res = Undefined
                 /\ Stored(items', key, now') = Stored(items, key, now)
                 /\ Stored(items, key, now).kind = "array" => items' = items]_vars

\* lIndex with index -1 has just returned the last element, 2, of a list of
\* three elements that starts with 1
C27_Witness ==
    /\ last.op = "lIndex"
    /\ last.arg[2] = 0 - 1
    /\ last.res = Num(2)
    /\ Len(ElementsAt(items, KeyA, now)) = 3
    /\ ElementsAt(items, KeyA, now)[1] = 1
    /\ ElementsAt(items, KeyA, now)[3] = 2

\* C26: a call that raises a domain error ([NO_ARRAY_ERROR],
\* [INVALID_COUNT_ERROR], [ITEM_NOT_EXISTS]) leaves the store exactly as it
\* was: no row added or removed, no value, no expiry stamp and no tag
\* changed.
C26_ErrorKeepsStore ==
    [][last'.res \in {NO_ARRAY_ERROR_LABEL, INVALID_COUNT_ERROR_LABEL,
                      ITEM_NOT_EXISTS_ERROR_LABEL} =>
          /\ items' = items
          /\ tags' = tags]_vars

\* rPop with count 0 has just raised [INVALID_COUNT_ERROR] on a tagged list
\* that carries a stamp
C26_Witness ==
    /\ last.op = "rPop"
    /\ last.res = INVALID_COUNT_ERROR_LABEL
    /\ last.old.kind = "array"
    /\ last.old.val # <<>>
    /\ \E r \in items : r.key = last.arg[1] /\ r.expires # NULL
    /\ TagRow(TagT, last.arg[1]) \in tags

\* the keys that carry `tag`
Carrying(tagRows, tag) == {tr.item_key : tr \in {x \in tagRows : x.tag = tag}}

\* C28: addTag(k, T) returns true and adds the association (T, k) when it
\* is not there, returns false and changes nothing when it is there, and
\* raises [ITEM_NOT_EXISTS] and adds nothing when k has no item; it never
\* touches another association or an item.
C28_AddTag ==
    [][last'.op = "addTag" =>
          LET key == last'.arg[1]
              tag == last'.arg[2]
          IN  /\ items' = items
              /\ IF ~HasRow(items, key)
                 THEN last'.res = ITEM_NOT_EXISTS_ERROR_LABEL /\ tags' = tags
                 ELSE IF key \in Carrying(tags, tag)
                 THEN last'.res = BoolResult(FALSE) /\ tags' = tags
                 ELSE /\ last'.res = BoolResult(TRUE)
                      /\ tags' = tags \cup {[tag |-> tag, item_key |-> key]}]_vars

\* addTag has just raised [ITEM_NOT_EXISTS] for a key without item while
\* the other key carries the tag
C28_Witness ==
    /\ last.op = "addTag"
    /\ last.res = ITEM_NOT_EXISTS_ERROR_LABEL
    /\ ~HasRow(items, last.arg[1])
    /\ Carrying(tags, last.arg[2]) # {}

\* C29: deleteTaggedItems(T) removes every item that carries T and all
\* associations of those items, leaves every other item and association
\* as it was, and getTaggedKeys(T) is empty afterwards; delete(k) of one
\* item removes the associations of k and no others.
C29_TaggedDelete ==
    [][/\ last'.op = "deleteTaggedItems" =>
             LET gone == Carrying(tags, last'.arg)
             IN  /\ items' = {r \in items : r.key \notin gone}
                 /\ tags' = {tr \in tags : tr.item_key \notin gone}
                 /\ Carrying(tags', last'.arg) = {}
                 /\ GetTaggedKeysResult(items', tags', last'.arg, now') = Undefined
       /\ (last'.op = "delete" /\ last'.arg.type = "string") =>
             /\ items' = {r \in items : r.key # last'.arg.str}
             /\ tags' = {tr \in tags : tr.item_key # last'.arg.str}]_vars

\* deleteTaggedItems has just removed an item that carried both tags, and
\* the other item is there with the tag it carries
C29_Witness ==
    /\ last.op = "deleteTaggedItems"
    /\ Cardinality(last.before) = 2
    /\ Cardinality(KeysOf(items)) = 1
    /\ tags = {[tag |-> CHOOSE u \in TagNames : u # last.arg,
                item_key |-> CHOOSE k \in KeysOf(items) : TRUE]}

\* the last item of `list` that names `key`
LastFor(list, key) ==
    list[CHOOSE i \in 1..Len(list) :
            /\ list[i].key = key
            /\ \A j \in (i + 1)..Len(list) : list[j].key # key]

\* C30: setItems(items) and delete(keys) write all or nothing: when the call
\* fails partway (on a value that cannot be encoded, on a statement the
\* engine cannot run) the store is as it was before the call; when it
\* returns, every item of the batch is written, resp. every key deleted.
C30_BatchAllOrNothing ==
    [][/\ (last'.op \in {"setItems", "delete"}
             /\ last'.res \in {DataCloneError, SQLiteError}) =>
             /\ items' = items
             /\ tags' = tags
       /\ (last'.op = "setItems" /\ last'.res = Undefined) =>
             /\ \A k \in {item.key : item \in Range(last'.arg)} :
                   Stored(items', k, now') = LastFor(last'.arg, k).value
             /\ \A r \in items :
                   r.key \notin {item.key : item \in Range(last'.arg)} => r \in items'
       /\ (last'.op = "delete" /\ last'.res = Undefined
             /\ last'.arg.type = "array" /\ last'.arg.arr # <<>>) =>
             items' = {r \in items : r.key \notin Range(last'.arg.arr)}]_vars

\* setItems has just failed on its second item, a function, and the first
\* item, for a key without row, is not in the table
C30_Witness ==
    /\ last.op = "setItems"
    /\ last.res = DataCloneError
    /\ Len(last.arg) = 2
    /\ last.arg[2].value = FuncValue
    /\ last.arg[1].key # last.arg[2].key
    /\ last.arg[1].key \notin last.before
    /\ ~HasRow(items, last.arg[1].key)
    /\ items # {}

\* C31: constructing a store over a file that holds rows sweeps first and
\* caps second: right after construction no row has a stamp that has
\* passed, every row it removed had a stamp, and with a cap n in the
\* options the stamped rows left are min(n, stamped rows that have not
\* expired), so the cap evicts rows that are not expired and no more of
\* them than it must, oldest stamp first; the tags of removed rows go too.
C31_ConstructSweepsThenCaps ==
    [][last'.op = "constructor" =>
          LET cap   == last'.arg[2]
              valid == items \ ExpiredRows(items, now)
          IN  /\ items' \subseteq valid
              /\ ExpiredRows(items', now') = {}
              /\ \A r \in items : r.expires = NULL => r \in items'
              /\ cap = UNDEFINED_MAX => items' = valid
              /\ cap # UNDEFINED_MAX =>
                    Cardinality(Expiring(items')) = Min(Cardinality(Expiring(valid)), cap)
              /\ \A e \in valid \ items', r \in Expiring(items') : e.expires <= r.expires
              /\ maxExpiringItemsInDb' = cap
              /\ tags' = {tr \in tags : HasRow(items', tr.item_key)}]_vars

\* a store was constructed with a cap over a file with an expired row and
\* two stamped rows that are not expired: one stamped row is left, a row
\* the cap evicted was not expired
C31_Witness ==
    /\ last.op = "constructor"
    /\ last.arg[2] = MaxCap
    /\ Cardinality(last.before) = 3
    /\ Cardinality(items) = 1
    /\ Expiring(items) = items
    /\ \A r \in items : r.expires > now

\* C32: in every reachable state every row (T, k) of `tags` names a key k
\* that has a row in `items`, whatever calls deleted, replaced, swept,
\* evicted or renamed rows before.
C32_TagsReferToRows ==
    \A tr \in tags : HasRow(items, tr.item_key)

\* rename(a, b) has just moved a tagged item: the tag is now on b, and a has
\* no row
C32_Witness ==
    /\ last.op = "rename"
    /\ last.res = BoolResult(TRUE)
    /\ last.arg[1] # last.arg[2]
    /\ ~HasRow(items, last.arg[1])
    /\ \E tr \in tags : tr.item_key = last.arg[2]

\* C33: a row (T, k) of `tags` goes only when k is untagged with deleteTag
\* or deleteTags or when the item k goes; a call that writes a new value to
\* k, which has a row afterwards, leaves the rows of `tags` of k in place.
C33_WritesKeepTags ==
    [][\A tr \in tags \ tags' :
          \/ last'.op \in {"deleteTag", "deleteTags"} /\ last'.arg[1] = tr.item_key
          \/ ~HasRow(items', tr.item_key)]_vars

\* C34: a compound call on a key whose row is in the table with a stamp that
\* has passed starts from nothing: incr returns its step and decr minus its
\* step, append the length of its string, getSet undefined, hSet and hIncr
\* leave a map of the one field, lPush and rPush a list of the pushed
\* values only; nothing of the expired value is in the new one.
C34_ExpiredCountsAsAbsent ==
    [][(last'.op \in {"incr", "decr", "append", "getSet", "hSet", "hIncr", "lPush", "rPush"}
          /\ StampPassed(items, last'.arg[1], now)) =>
             LET key   == last'.arg[1]
                 after == Stored(items', key, now')
                 by    == IF last'.arg[Len(last'.arg) - 1] = <<>> THEN 1
                          ELSE last'.arg[Len(last'.arg) - 1][1]
             IN  CASE last'.op = "incr" ->
                        last'.res = Num(by) /\ after = Num(by)
                   [] last'.op = "decr" ->
                        last'.res = Num(0 - by) /\ after = Num(0 - by)
                   [] last'.op = "append" ->
                        /\ last'.res = Num(Len(last'.arg[2].val))
                        /\ after = last'.arg[2]
                   [] last'.op = "getSet" ->
                        last'.res = Undefined /\ after = last'.arg[2]
                   [] last'.op = "hSet" ->
                        /\ last'.res = BoolResult(TRUE)
                        /\ after = MapOf(<<<<last'.arg[2], last'.arg[3]>>>>)
                   [] last'.op = "hIncr" ->
                        /\ last'.res = Num(by)
                        /\ after = MapOf(<<<<last'.arg[2], Num(by)>>>>)
                   [] last'.op = "lPush" ->
                        /\ after = ArrOf(Reverse(last'.arg[2]))
                        /\ last'.arg[2] # <<>> => last'.res = CountResult(Len(last'.arg[2]))
                   [] last'.op = "rPush" ->
                        /\ after = ArrOf(last'.arg[2])
                        /\ last'.res = CountResult(Len(last'.arg[2]))]_vars

\* append has just been called on a key whose string had expired and was
\* still in the table: it returned the length of its own string
C34_Witness ==
    /\ last.op = "append"
    /\ KeyA \in last.before
    /\ last.old = Undefined
    /\ last.res = Num(Len(last.arg[2].val))
    /\ Stored(items, KeyA, now) = last.arg[2]

\* C35: the delete a get() runs for an expired row never removes a row
\* that is not expired: a row another process has written to the key
\* meanwhile, without stamp or with a stamp that has not passed, is in the
\* table after the get() as well.
C35_LazyDeleteKeepsFresh ==
    [][last'.op = "get" =>
          \A r \in items : ~IsExpired(r.expires, now') => r \in items']_vars

\* C36: at every instant the calls agree on the valid items: the number
\* getCountValid() returns is the number of keys has(key) is true for and
\* the number getCountValid(true) returns, and the keys getRandomKey can
\* return are those keys; also when a stamp equals the current time.
C36_ValidityAgrees ==
    LET valid == {k \in KeysOf(items) : HasResult(items, k, now) = BoolResult(TRUE)}
    IN  /\ GetCountValidResult(items, FALSE, now) = CountResult(Cardinality(valid))
        /\ GetCountValidResult(items, TRUE, now) = GetCountValidResult(items, FALSE, now)
        /\ {r.key : r \in RandomRows(items, now)} = valid

\* the call just made has written a value to its key: it raised nothing,
\* returned no NaN, and a pop with a count took something out
Rewrote ==
    CASE last'.op \in {"incr", "decr", "hIncr", "hDecr"} -> last'.res.kind = "number"
      [] last'.op \in {"append", "getSet"} -> TRUE
      [] last'.op \in {"hSet", "hDelete"} -> last'.res.kind = "boolean"
      [] last'.op = "hmSet" -> last'.res = Undefined
      [] last'.op \in {"lPush", "rPush"} -> last'.res.kind \in {"count", "undefined"}
      [] last'.op \in {"lPop", "rPop"} ->
            \/ last'.res.kind \in {"number", "array"}
            \/ last'.res = Undefined /\ last'.arg[2] = NoCount
      [] OTHER -> FALSE

\* C37: a call of incr, decr, append, getSet, hSet, hmSet, hIncr without ttl
\* and of hDelete, lPush, rPush, lPop, rPop that rewrites the value of an
\* item gives it the stamp of a set without ttl: now + default TTL in a store
\* with a default, none otherwise, whatever stamp the item carried.
C37_RewriteRestamps ==
    [][(/\ last'.op \in {"incr", "decr", "append", "getSet", "hSet", "hmSet", "hIncr",
                          "hDecr", "hDelete", "lPush", "rPush", "lPop", "rPop"}
        /\ Stored(items, last'.arg[1], now) # Undefined
        /\ last'.op \in {"incr", "decr", "append", "getSet", "hSet", "hmSet", "hIncr",
                          "hDecr"} => last'.arg[Len(last'.arg)] = UNDEFINED_TTL
        /\ Rewrote) =>
            /\ HasRow(items', last'.arg[1])
            /\ RowOf(items', last'.arg[1]).expires =
                  (IF ttlMs # UNDEFINED_TTL /\ ttlMs > 0 THEN now + ttlMs ELSE NULL)]_vars

\* hDelete has just taken a field out of a map whose stamp was to run
\* longer: the item carries no stamp any more, the store has no default
C37_Witness ==
    /\ last.op = "hDelete"
    /\ last.res = BoolResult(TRUE)
    /\ ttlMs = UNDEFINED_TTL
    /\ last.old.val[1].kind = "map"
    /\ last.old.val[2] > now
    /\ RowOf(items, KeyA).expires = NULL

\* the calls that read
Reads ==
    {"get", "getItem", "has", "getItems", "getKeys", "getValues", "getTtl", "getCount",
     "getCountValid", "getRandomKey", "getRandomItem", "getRandomValue", "hGet", "hmGet",
     "hGetFields", "lIndex"}

\* C38: a read changes the table only by deleting rows whose stamp has
\* passed: every row that is not expired is there afterwards with its value
\* and its stamp, no row is added, for a missing key neither, and the
\* counting and random reads delete nothing.
C38_ReadsOnlySweep ==
    [][last'.op \in Reads =>
          /\ items' \subseteq items
          /\ items \ items' \subseteq ExpiredRows(items, now)
          /\ last'.op \in {"getCount", "getCountValid", "getRandomKey", "getRandomItem",
                            "getRandomValue"} => items' = items]_vars

\* getTtl on a key whose stamp has passed has just deleted that row and
\* left the row of the other key, which carries a stamp too
C38_Witness ==
    /\ last.op = "getTtl"
    /\ last.res = Undefined
    /\ Cardinality(last.before) = 2
    /\ KeysOf(items) = last.before \ {last.arg}
    /\ \A r \in items : r.expires # NULL

\* C39: getItems(keys) and getValues(keys) return one entry for each
\* requested key, in request order, and the entry of a key whose row is in
\* the table with a stamp that has passed is the entry of a key without
\* row, value undefined: the result is the same whether or not the expired
\* row has been swept.
C39_ExpiredLikeMissing ==
    [][(last'.op \in {"getItems", "getValues"} /\ last'.arg.type = "array"
          /\ last'.arg.arr # <<>>) =>
             LET keys     == last'.arg.arr
                 returned == IF last'.res = Undefined THEN <<>> ELSE last'.res.val
             IN  /\ Len(returned) = Len(keys)
                 /\ last'.res = (IF last'.op = "getItems"
                                 THEN GetItemsResult(deleteExpiredStatement(items, now),
                                                     last'.arg, now)
                                 ELSE GetValuesResult(deleteExpiredStatement(items, now),
                                                      last'.arg, now))
                 /\ \A i \in 1..Len(returned) :
                       IF last'.op = "getItems"
                       THEN returned[i] = [key |-> keys[i],
                                           value |-> Stored(items, keys[i], now)]
                       ELSE returned[i] = Stored(items, keys[i], now)]_vars

====
